---- MODULE Spec2Model ----
(***************************************************************************)
(* Model of the schema-migration engine of nidorx/pg: the registered       *)
(* migrations, the history table (ledger), the row lock taken by           *)
(* migrationHistory.lock, the reconciliation pass of migrateNext, the      *)
(* apply step of migrateSingle and the ledger append of                    *)
(* addAppliedMigration.  The PostgreSQL server is the environment: it is   *)
(* modelled by the committed rows of the history table, one open lock      *)
(* transaction per process (READ COMMITTED) and the committed effects of   *)
(* the migration commands.                                                 *)
(***************************************************************************)
EXTENDS Integers, Sequences, FiniteSets, TLC

Procs == {1, 2}

\* Number of Database.Migrate calls of the sequential specification.
MaxRuns == 3

\* Number of definitions a program registers in the registration
\* specification.
MaxRegistered == 3

(***************************************************************************)
(* Versions, semantic-version comparison, hashing.                         *)
(***************************************************************************)

\* MigrationState
MigrationPending == 0
MigrationSuccess == 1
MigrationFailed == 2

\* The parse of golang.org/x/mod/semver for the version strings of the
\* model ("v" + version): major, minor, patch; <<>> for a string that is no
\* semantic version ("", "R").  A missing minor or patch is read as 0.
SemverParse(v) ==
    CASE v = "0"     -> <<0, 0, 0>>
      [] v = "1.0"   -> <<1, 0, 0>>
      [] v = "1.0.0" -> <<1, 0, 0>>
      [] v = "2.0.0" -> <<2, 0, 0>>
      [] v = "3.0.0" -> <<3, 0, 0>>
      [] v = "4.0.0" -> <<4, 0, 0>>
      [] v = "5.0.0" -> <<5, 0, 0>>
      [] OTHER       -> <<>>

IsValid(v) == SemverParse(v) # <<>>

\* semver.Compare: an invalid version is less than a valid one, two invalid
\* versions are equal, valid ones compare by major, minor, patch.
Compare(v, w) ==
    LET a == SemverParse(v)
        b == SemverParse(w)
    IN  IF a = <<>> /\ b = <<>> THEN 0
        ELSE IF a = <<>> THEN -1
        ELSE IF b = <<>> THEN 1
        ELSE IF a[1] # b[1] THEN (IF a[1] < b[1] THEN -1 ELSE 1)
        ELSE IF a[2] # b[2] THEN (IF a[2] < b[2] THEN -1 ELSE 1)
        ELSE IF a[3] # b[3] THEN (IF a[3] < b[3] THEN -1 ELSE 1)
        ELSE 0

\* hash: md5 in hex, modelled as an injective symbolic function.
hash(text) == "h(" \o text \o ")"

(***************************************************************************)
(* Migration definitions and their commands.                               *)
(***************************************************************************)

\* A command is named by its SQL text or its callback name.  "A", "B" and
\* "C" are SQL statements (ExecSql); "T" is a callback (ExecFn) whose body
\* runs one statement inside db.Transaction on the handle it receives.
IsNested(cmd) == cmd = "T"

\* Migration.ExecSql / Migration.ExecFn: append the command and fold its
\* hash into the checksum.
\* ExecSql that schedules the command and leaves the checksum alone.
ExecSqlNoChecksum(m, sql) ==
    [m EXCEPT !.commands = Append(@, sql)]

ExecSql(m, sql) ==
    [m EXCEPT !.commands = Append(@, sql),
              !.Checksum = hash(@ \o hash(sql))]

ExecFn(m, name) ==
    [m EXCEPT !.commands = Append(@, name),
              !.Checksum = hash(@ \o hash(name))]

\* The preparation hook of a definition: schedules the commands of its
\* script, in order.
RECURSIVE PrepareFrom(_, _, _)
PrepareFrom(m, script, i) ==
    IF i > Len(script) THEN m
    ELSE PrepareFrom(IF IsNested(script[i]) THEN ExecFn(m, script[i])
                                            ELSE ExecSql(m, script[i]),
                     script, i + 1)

Prepare(m) == PrepareFrom(m, m.script, 1)

\* Database.AddMigration builds the Migration of an accepted registration.
NewMigration(version, description, script) ==
    [Version |-> version, Description |-> description, script |-> script,
     Repeat |-> (version = "R"), State |-> MigrationPending,
     InstalledRank |-> 0, Checksum |-> "", commands |-> <<>>]


\* Database.AddMigration: the registered list after the call, and whether the
\* call was rejected.
AddMigration(registered, version, description, script) ==
    IF version # "R" /\ ~IsValid(version)
    THEN [err |-> "invalid version", migrations |-> registered]
    ELSE IF description = ""
    THEN [err |-> "description required", migrations |-> registered]
    ELSE IF \E i \in 1..Len(registered) : registered[i].Version = version
    THEN [err |-> "duplicated version", migrations |-> registered]
    ELSE [err |-> "nil",
          migrations |-> Append(registered,
                                NewMigration(version, description, script))]

\* The comparison function of the sort in migrationHistory.Migrate.
Less(a, b) ==
    IF a.Repeat = b.Repeat
    THEN Compare(a.Version, b.Version) < 0
    ELSE IF a.Repeat THEN FALSE ELSE TRUE

\* sort.SliceStable: the stable order of s under less.
SliceStable(s, less(_, _)) ==
    LET Insert(sorted, x) ==
            LET n == Len(sorted)
                keep == {j \in 1..n : ~less(x, sorted[j])}
                pos == IF keep = {} THEN 0
                       ELSE CHOOSE j \in keep : \A k \in keep : k <= j
            IN  SubSeq(sorted, 1, pos) \o <<x>> \o SubSeq(sorted, pos + 1, n)
        F[i \in 0..Len(s)] == IF i = 0 THEN <<>> ELSE Insert(F[i - 1], s[i])
    IN  F[Len(s)]

(***************************************************************************)
(* The history table and its cache.                                        *)
(***************************************************************************)

\* The row addAppliedMigration inserts for a definition.
Row(rank, info, ok) ==
    [installed_rank |-> rank, version |-> info.Version,
     description |-> info.Description, checksum |-> info.Checksum,
     success |-> ok]

\* Scan with the success column ignored: every row reads as a failure.
ScanSuccessIgnored(row) ==
    [InstalledRank |-> row.installed_rank, Version |-> row.version,
     Description |-> row.description, Checksum |-> row.checksum,
     State |-> MigrationFailed]

\* rows.Scan of getAppliedMigrations: a row as a MigrationInfo.
Scan(row) ==
    [InstalledRank |-> row.installed_rank, Version |-> row.version,
     Description |-> row.description, Checksum |-> row.checksum,
     State |-> IF row.success THEN MigrationSuccess ELSE MigrationFailed]

RankLess(a, b) == a.InstalledRank < b.InstalledRank

sortCache(c) == SliceStable(c, RankLess)

\* "SELECT ... WHERE installed_rank > $1 ORDER BY installed_rank" over the
\* committed rows.
RECURSIVE QueryAbove(_, _)
QueryAbove(rows, rank) ==
    LET above == {r \in rows : r.installed_rank > rank}
    IN  IF above = {} THEN <<>>
        ELSE LET first == CHOOSE r \in above :
                              \A o \in above : r.installed_rank <= o.installed_rank
             IN  <<Scan(first)>> \o QueryAbove(above \ {first}, first.installed_rank - 1)

\* getAppliedMigrations that queries every rank again.
getAppliedMigrationsAll(c, rows) ==
    sortCache(c \o QueryAbove(rows, -1))

\* migrationHistory.getAppliedMigrations: the cache after the call (which is
\* also the list it returns).
getAppliedMigrations(c, rows) ==
    LET maxCachedInstalledRank ==
            IF Len(c) > 0 THEN sortCache(c)[Len(c)].InstalledRank ELSE -1
    IN  sortCache(c \o QueryAbove(rows, maxCachedInstalledRank))

\* calculateInstalledRank that returns the highest rank itself.
calculateInstalledRankSame(appliedMigrations) ==
    IF Len(appliedMigrations) = 0 THEN 1
    ELSE appliedMigrations[Len(appliedMigrations)].InstalledRank

\* migrationHistory.calculateInstalledRank over the list returned by
\* getAppliedMigrations.
calculateInstalledRank(appliedMigrations) ==
    IF Len(appliedMigrations) = 0 THEN 1
    ELSE appliedMigrations[Len(appliedMigrations)].InstalledRank + 1


(***************************************************************************)
(* Reconciliation (migrateNext, up to the choice of the next migration).   *)
(***************************************************************************)

\* appliedByVersion that keeps the first entry of a version.
appliedByVersionFirst(appliedMigrations, version) ==
    LET hits == {i \in 1..Len(appliedMigrations) :
                     /\ appliedMigrations[i].Version # "R"
                     /\ appliedMigrations[i].Version = version}
    IN  IF hits = {} THEN 0 ELSE CHOOSE i \in hits : \A j \in hits : i <= j

\* appliedByVersion[version] of migrateNext, as the index of the entry in
\* appliedMigrations (0: no entry).  The map is filled in list order, so a
\* later entry of the same version replaces an earlier one; "R" rows are
\* not entered.
appliedByVersion(appliedMigrations, version) ==
    LET hits == {i \in 1..Len(appliedMigrations) :
                     /\ appliedMigrations[i].Version # "R"
                     /\ appliedMigrations[i].Version = version}
    IN  IF hits = {} THEN 0 ELSE CHOOSE i \in hits : \A j \in hits : j <= i

\* The lastAppliedVersion computed by the first loop of migrateNext.
RECURSIVE lastAppliedFrom(_, _, _)
lastAppliedFrom(appliedMigrations, i, last) ==
    IF i > Len(appliedMigrations) THEN last
    ELSE LET info == appliedMigrations[i]
         IN  lastAppliedFrom(appliedMigrations, i + 1,
                 IF /\ info.Version # "R"
                    /\ info.State = MigrationSuccess
                    /\ Compare(info.Version, last) > 0
                 THEN info.Version ELSE last)

\* resolveLocal that does not mark a definition whose row is a success:
\* the definition keeps the State it had.
resolveLocalKeepState(m, appliedMigrations, last) ==
    LET version == m.Version
        state == IF version # "R" THEN MigrationPending ELSE m.State
        a == appliedByVersion(appliedMigrations, version)
    IN  IF a = 0
        THEN IF version # "R" /\ Compare(version, last) <= 0
             THEN [err |-> "out of order", State |-> state]
             ELSE [err |-> "nil", State |-> state]
        ELSE IF appliedMigrations[a].State = MigrationSuccess
        THEN IF appliedMigrations[a].Checksum # m.Checksum
             THEN [err |-> "checksum mismatch", State |-> state]
             ELSE IF appliedMigrations[a].Description # m.Description
             THEN [err |-> "description mismatch", State |-> state]
             ELSE [err |-> "nil", State |-> m.State]
        ELSE [err |-> "nil", State |-> state]

\* resolveLocal that resets the State of repeatable definitions too.
resolveLocalResetAll(m, appliedMigrations, last) ==
    LET version == m.Version
        state == MigrationPending
        a == appliedByVersion(appliedMigrations, version)
    IN  IF a = 0
        THEN IF version # "R" /\ Compare(version, last) <= 0
             THEN [err |-> "out of order", State |-> state]
             ELSE [err |-> "nil", State |-> state]
        ELSE IF appliedMigrations[a].State = MigrationSuccess
        THEN IF appliedMigrations[a].Checksum # m.Checksum
             THEN [err |-> "checksum mismatch", State |-> state]
             ELSE IF appliedMigrations[a].Description # m.Description
             THEN [err |-> "description mismatch", State |-> state]
             ELSE [err |-> "nil", State |-> MigrationSuccess]
        ELSE [err |-> "nil", State |-> state]

\* resolveLocal without the check against the last applied version.
resolveLocalAnyOrder(m, appliedMigrations, last) ==
    LET version == m.Version
        state == IF version # "R" THEN MigrationPending ELSE m.State
        a == appliedByVersion(appliedMigrations, version)
    IN  IF a = 0
        THEN [err |-> "nil", State |-> state]
        ELSE IF appliedMigrations[a].State = MigrationSuccess
        THEN IF appliedMigrations[a].Checksum # m.Checksum
             THEN [err |-> "checksum mismatch", State |-> state]
             ELSE IF appliedMigrations[a].Description # m.Description
             THEN [err |-> "description mismatch", State |-> state]
             ELSE [err |-> "nil", State |-> MigrationSuccess]
        ELSE [err |-> "nil", State |-> state]

\* resolveLocal that compares the description before the checksum.
resolveLocalDescriptionFirst(m, appliedMigrations, last) ==
    LET version == m.Version
        state == IF version # "R" THEN MigrationPending ELSE m.State
        a == appliedByVersion(appliedMigrations, version)
    IN  IF a = 0
        THEN IF version # "R" /\ Compare(version, last) <= 0
             THEN [err |-> "out of order", State |-> state]
             ELSE [err |-> "nil", State |-> state]
        ELSE IF appliedMigrations[a].State = MigrationSuccess
        THEN IF appliedMigrations[a].Description # m.Description
             THEN [err |-> "description mismatch", State |-> state]
             ELSE IF appliedMigrations[a].Checksum # m.Checksum
             THEN [err |-> "checksum mismatch", State |-> state]
             ELSE [err |-> "nil", State |-> MigrationSuccess]
        ELSE [err |-> "nil", State |-> state]

\* resolveLocal that checks the order of repeatable definitions too.
resolveLocalRepeatChecked(m, appliedMigrations, last) ==
    LET version == m.Version
        state == IF version # "R" THEN MigrationPending ELSE m.State
        a == appliedByVersion(appliedMigrations, version)
    IN  IF a = 0
        THEN IF Compare(version, last) <= 0
             THEN [err |-> "out of order", State |-> state]
             ELSE [err |-> "nil", State |-> state]
        ELSE IF appliedMigrations[a].State = MigrationSuccess
        THEN IF appliedMigrations[a].Checksum # m.Checksum
             THEN [err |-> "checksum mismatch", State |-> state]
             ELSE IF appliedMigrations[a].Description # m.Description
             THEN [err |-> "description mismatch", State |-> state]
             ELSE [err |-> "nil", State |-> MigrationSuccess]
        ELSE [err |-> "nil", State |-> state]

\* The body of the second loop of migrateNext ("compare with local
\* migrations") for one definition m: the error it returns with, and the
\* State it leaves the definition in.
resolveLocal(m, appliedMigrations, last) ==
    LET version == m.Version
        state == IF version # "R" THEN MigrationPending ELSE m.State
        a == appliedByVersion(appliedMigrations, version)
    IN  IF a = 0
        THEN IF version # "R" /\ Compare(version, last) <= 0
             THEN [err |-> "out of order", State |-> state]
             ELSE [err |-> "nil", State |-> state]
        ELSE IF appliedMigrations[a].State = MigrationSuccess
        THEN IF appliedMigrations[a].Checksum # m.Checksum
             THEN [err |-> "checksum mismatch", State |-> state]
             ELSE IF appliedMigrations[a].Description # m.Description
             THEN [err |-> "description mismatch", State |-> state]
             ELSE [err |-> "nil", State |-> MigrationSuccess]
        ELSE [err |-> "nil", State |-> state]

\* The second loop of migrateNext from definition i on: the error it returns
\* early with, the definitions with their State as the loop leaves them,
\* and the pending ones (indices).
RECURSIVE compareLocal(_, _, _, _, _)
compareLocal(ms, i, appliedMigrations, last, pending) ==
    IF i > Len(ms) THEN [err |-> "nil", migrations |-> ms, pending |-> pending]
    ELSE
      LET r == resolveLocal(ms[i], appliedMigrations, last)
          resolved == [ms EXCEPT ![i].State = r.State]
      IN  IF r.err # "nil"
          THEN [err |-> r.err, migrations |-> resolved, pending |-> pending]
          ELSE compareLocal(resolved, i + 1, appliedMigrations, last,
                            IF r.State = MigrationPending
                            THEN Append(pending, i) ELSE pending)

\* The choice of the last pending migration instead of the first.
nextPendingLast(pending) ==
    IF Len(pending) = 0 THEN 0 ELSE pending[Len(pending)]

\* "migration := pendingMigrations[0]": the index of the migration to apply
\* (0: nothing is pending).
nextPending(pending) == IF Len(pending) = 0 THEN 0 ELSE pending[1]

\* reconcile without the check for applied migrations that are not
\* resolved locally.
reconcileNoOrphanCheck(ms, appliedMigrations) ==
    LET last == lastAppliedFrom(appliedMigrations, 1, "")
        r == compareLocal(ms, 1, appliedMigrations, last, <<>>)
    IN  IF r.err # "nil"
        THEN [err |-> r.err, migrations |-> r.migrations,
              lastAppliedVersion |-> last, next |-> 0]
        ELSE [err |-> "nil", migrations |-> r.migrations,
              lastAppliedVersion |-> last, next |-> nextPending(r.pending)]

\* reconcile that selects the first pending migration although an applied
\* migration is not resolved locally.
reconcileApplyDespiteOrphan(ms, appliedMigrations) ==
    LET last == lastAppliedFrom(appliedMigrations, 1, "")
        r == compareLocal(ms, 1, appliedMigrations, last, <<>>)
        notResolved ==
            {appliedMigrations[i].Version : i \in
                {j \in 1..Len(appliedMigrations) :
                     appliedMigrations[j].Version # "R"}}
            \ {ms[i].Version : i \in 1..Len(ms)}
    IN  IF r.err # "nil"
        THEN [err |-> r.err, migrations |-> r.migrations,
              lastAppliedVersion |-> last, next |-> 0]
        ELSE IF notResolved # {}
        THEN [err |-> "not resolved locally", migrations |-> r.migrations,
              lastAppliedVersion |-> last, next |-> nextPending(r.pending)]
        ELSE [err |-> "nil", migrations |-> r.migrations,
              lastAppliedVersion |-> last, next |-> nextPending(r.pending)]

\* migrateNext up to the call of migrateSingle: err, the definitions, the
\* lastAppliedVersion and the index of the migration to apply (0: none).
reconcile(ms, appliedMigrations) ==
    LET last == lastAppliedFrom(appliedMigrations, 1, "")
        r == compareLocal(ms, 1, appliedMigrations, last, <<>>)
        notResolved ==
            {appliedMigrations[i].Version : i \in
                {j \in 1..Len(appliedMigrations) :
                     appliedMigrations[j].Version # "R"}}
            \ {ms[i].Version : i \in 1..Len(ms)}
    IN  IF r.err # "nil"
        THEN [err |-> r.err, migrations |-> r.migrations,
              lastAppliedVersion |-> last, next |-> 0]
        ELSE IF notResolved # {}
        THEN [err |-> "not resolved locally", migrations |-> r.migrations,
              lastAppliedVersion |-> last, next |-> 0]
        ELSE [err |-> "nil", migrations |-> r.migrations,
              lastAppliedVersion |-> last, next |-> nextPending(r.pending)]

(***************************************************************************)
(* Database handles and transactions.  A handle is tx (it holds an open    *)
(* transaction), the number of command effects pending in that transaction *)
(* and the number of effects committed through the handle.                 *)
(***************************************************************************)

NewConn == [tx |-> FALSE, pending |-> 0, committed |-> 0]

\* Database.Begin: the handle itself when it already holds a transaction.
Begin(d) == IF d.tx THEN d ELSE [d EXCEPT !.tx = TRUE]

\* Database.Commit / Database.Rollback: end the transaction of the handle,
\* if it holds one, and clear d.tx.
Commit(d) ==
    IF d.tx
    THEN [tx |-> FALSE, pending |-> 0, committed |-> d.committed + d.pending]
    ELSE d

Rollback(d) ==
    IF d.tx THEN [d EXCEPT !.tx = FALSE, !.pending = 0] ELSE d

\* Database.Execute of one statement that fails or takes effect: inside the
\* transaction of the handle, or at once when the handle holds none.
Execute(d, fails) ==
    IF fails THEN [db |-> d, err |-> TRUE]
    ELSE IF d.tx
    THEN [db |-> [d EXCEPT !.pending = @ + 1], err |-> FALSE]
    ELSE [db |-> [d EXCEPT !.committed = @ + 1], err |-> FALSE]

\* Database.Transaction: begin, run the callback (an error or a panic of
\* the callback is err), commit on success and roll back otherwise.
Transaction(d, callback(_)) ==
    LET r == callback(Begin(d))
    IN  IF ~r.err
        THEN [db |-> Commit(r.db), err |-> FALSE]
        ELSE [db |-> Rollback(r.db), err |-> TRUE]

\* migrationCommand.run: an SQL command executes on the handle; the
\* callback "T" runs its statement inside db.Transaction.
run(db, cmd, fails) ==
    IF IsNested(cmd)
    THEN LET body(h) == Execute(h, fails) IN Transaction(db, body)
    ELSE Execute(db, fails)

\* The command loop of migrateSingle; command failAt fails (0: none).
RECURSIVE runCommands(_, _, _, _)
runCommands(db, commands, i, failAt) ==
    IF i > Len(commands) THEN [db |-> db, err |-> FALSE]
    ELSE LET r == run(db, commands[i], i = failAt)
         IN  IF r.err THEN r ELSE runCommands(r.db, commands, i + 1, failAt)

\* The transaction of migrateSingle on a fresh connection.
applyCommands(commands, failAt) ==
    LET body(h) == runCommands(h, commands, 1, failAt)
    IN  Transaction(NewConn, body)


(***************************************************************************)
(* Registrations.                                                          *)
(***************************************************************************)

\* The definitions a program of the sequential specification may register:
\* version, description, script of the preparation hook.
Definitions ==
    { <<"1.0.0", "first",  <<"A", "B">>>>,
      <<"2.0.0", "second", <<"T", "C">>>>,
      <<"3.0.0", "third",  <<"C">>>>,
      <<"R",     "views",  <<"B">>>> }

\* Every list of migrations a sequence of AddMigration calls can leave in
\* d.migrations.
RECURSIVE RegisteredAfter(_)
RegisteredAfter(n) ==
    IF n = 0 THEN {<<>>}
    ELSE LET prev == RegisteredAfter(n - 1)
         IN  prev \cup
             {AddMigration(ms, d[1], d[2], d[3]).migrations :
                  ms \in prev, d \in Definitions}

Registrations == RegisteredAfter(Cardinality(Definitions))

\* The registration of the two concurrent migrators: the same five pending
\* non-repeatable migrations.
FiveMigrations ==
    << NewMigration("1.0.0", "first",  <<"A">>),
       NewMigration("2.0.0", "second", <<"A">>),
       NewMigration("3.0.0", "third",  <<"A">>),
       NewMigration("4.0.0", "fourth", <<"A">>),
       NewMigration("5.0.0", "fifth",  <<"A">>) >>

Versions == {"1.0", "1.0.0", "2.0.0", "3.0.0", "4.0.0", "5.0.0", "R"}

\* The definitions of a registration, without their order.
DefSet(ms) ==
    {<<ms[i].Version, ms[i].Description, ms[i].script>> : i \in 1..Len(ms)}

(***************************************************************************)
(* State.                                                                  *)
(***************************************************************************)

VARIABLES
    pc,                  \* where each process is in Migrate
    migrations,          \* d.migrations of each process
    cache,               \* h.cache
    dbLock,              \* h.dbLock # nil
    lastAppliedVersion,  \* h.lastAppliedVersion
    totalSuccess,        \* totalSuccess of Migrate
    count,               \* count of Migrate
    selected,            \* index of the migration migrateNext applies
    success,             \* the success argument of addAppliedMigration
    installedRank,       \* installedRank of addAppliedMigration
    cbErr,               \* the error of the callback of lock
    result,              \* what Migrate returned
    table,               \* committed rows of the history table
    lockTx,              \* the lock transaction of each process
    schema,              \* committed command effects per version
    runs,                \* Migrate calls so far
    assigned,            \* every installed rank assigned, in order
    obs,                 \* per run: what the run did so far
    lastOk,              \* the last run, if it returned nil
    boot                 \* the schema and the history table exist; the
                         \* attempt of the retry of each process

hVars == <<migrations, cache, dbLock, lastAppliedVersion, totalSuccess,
           count, selected, success, installedRank, cbErr, result>>
dbVars == <<table, lockTx, schema>>
vars == <<pc, hVars, dbVars, runs, assigned, obs, lastOk, boot>>

NoTx == [open |-> FALSE, failed |-> FALSE, locked |-> {}, deleted |-> {},
         inserted |-> {}, waiting |-> {}]

NoObs == [registered |-> {}, startTable |-> {}, sections |-> 0,
          passes |-> 0, applied |-> <<>>, cmdFailed |-> FALSE,
          schemaBefore |-> [v \in Versions |-> 0], retried |-> 0,
          prev |-> [valid |-> FALSE, registered |-> {}, table |-> {}],
          added |-> [called |-> FALSE, err |-> "nil", before |-> <<>>,
                     version |-> "", description |-> ""],
          conns |-> 0, released |-> 0, commitFailed |-> FALSE,
          record |-> [called |-> FALSE, err |-> "nil"],
          relock |-> [called |-> FALSE, err |-> "nil"],
          tx |-> [called |-> FALSE, cbErr |-> FALSE, err |-> FALSE,
                  open |-> FALSE, effects |-> 0, committed |-> 0]]

\* The program before its first run.
InitProgram ==
    /\ pc = [p \in Procs |-> "idle"]
    /\ migrations = [p \in Procs |-> <<>>]
    /\ cache = [p \in Procs |-> <<>>]
    /\ dbLock = [p \in Procs |-> FALSE]
    /\ lastAppliedVersion = [p \in Procs |-> ""]
    /\ totalSuccess = [p \in Procs |-> 0]
    /\ count = [p \in Procs |-> 0]
    /\ selected = [p \in Procs |-> 0]
    /\ success = [p \in Procs |-> FALSE]
    /\ installedRank = [p \in Procs |-> 0]
    /\ cbErr = [p \in Procs |-> "nil"]
    /\ result = [p \in Procs |-> "none"]
    /\ table = {}
    /\ lockTx = [p \in Procs |-> NoTx]
    /\ schema = [v \in Versions |-> 0]
    /\ runs = 0
    /\ assigned = <<>>
    /\ obs = [p \in Procs |-> NoObs]
    /\ lastOk = [valid |-> FALSE, registered |-> {}, table |-> {}]

\* The retry of a process outside retries.Execute.
NoRetry == [attempt |-> 0]

\* The database with the schema and the history table in place.
Init ==
    /\ InitProgram
    /\ boot = [schema |-> TRUE, table |-> TRUE,
               retry |-> [p \in Procs |-> NoRetry]]

Ranks(rows) == {r.installed_rank : r \in rows}

\* Rows another open transaction holds a row lock on (FOR UPDATE or DELETE).
LockedByOthers(p) == UNION {lockTx[q].locked : q \in Procs \ {p}}


(***************************************************************************)
(* Database.Migrate / migrationHistory.Migrate.                            *)
(***************************************************************************)

\* Database.Migrate on a Database with the registered list regs, up to the
\* first lock: nothing happens when no migration is registered; otherwise a
\* new migrationHistory is made, the list is sorted and every preparation
\* hook runs.  The history table exists.
Migrate(p, regs) ==
    /\ pc[p] \in {"idle", "done"}
    /\ runs' = runs + 1
    /\ obs' = [obs EXCEPT ![p] =
                  [NoObs EXCEPT !.registered = DefSet(regs),
                                !.startTable = table,
                                !.prev = lastOk]]
    /\ cache' = [cache EXCEPT ![p] = <<>>]
    /\ dbLock' = [dbLock EXCEPT ![p] = FALSE]
    /\ totalSuccess' = [totalSuccess EXCEPT ![p] = 0]
    /\ count' = [count EXCEPT ![p] = 0]
    /\ selected' = [selected EXCEPT ![p] = 0]
    /\ cbErr' = [cbErr EXCEPT ![p] = "nil"]
    /\ IF Len(regs) = 0
       THEN /\ pc' = [pc EXCEPT ![p] = "done"]
            /\ result' = [result EXCEPT ![p] = "nil"]
            /\ migrations' = [migrations EXCEPT ![p] = <<>>]
            /\ lastAppliedVersion' = [lastAppliedVersion EXCEPT ![p] = ""]
            /\ lastOk' = [valid |-> TRUE, registered |-> {}, table |-> table]
       ELSE /\ pc' = [pc EXCEPT ![p] =
                         IF boot.schema /\ boot.table
                         THEN "lock" ELSE "schemaExists"]
            /\ result' = [result EXCEPT ![p] = "none"]
            /\ migrations' =
                   [migrations EXCEPT ![p] =
                       LET sorted == SliceStable(regs, Less)
                       IN  [i \in 1..Len(sorted) |-> Prepare(sorted[i])]]
            /\ lastAppliedVersion' = [lastAppliedVersion EXCEPT ![p] = "0"]
            /\ lastOk' = lastOk
    /\ boot' = [boot EXCEPT !.retry[p] = NoRetry]
    /\ UNCHANGED <<success, installedRank, dbVars, assigned>>

(***************************************************************************)
(* migrationHistory.lock.                                                  *)
(***************************************************************************)

\* lock up to "SELECT * FROM <table> FOR UPDATE" in a new transaction on the
\* dedicated connection: the statement locks the rows it finds; it waits
\* when another transaction holds one of them.
lock(p) ==
    /\ pc[p] = "lock"
    /\ ~dbLock[p]
    /\ dbLock' = [dbLock EXCEPT ![p] = TRUE]
    /\ count' = [count EXCEPT ![p] = 0]
    /\ obs' = [obs EXCEPT ![p].sections = @ + 1, ![p].conns = @ + 1]
    /\ LET rows == Ranks(table)
       IN  IF rows \cap LockedByOthers(p) = {}
           THEN /\ lockTx' = [lockTx EXCEPT ![p] =
                                 [NoTx EXCEPT !.open = TRUE, !.locked = rows]]
                /\ pc' = [pc EXCEPT ![p] = "migrateNext"]
           ELSE /\ lockTx' = [lockTx EXCEPT ![p] =
                                 [NoTx EXCEPT !.open = TRUE, !.waiting = rows]]
                /\ pc' = [pc EXCEPT ![p] = "lockWait"]
    /\ UNCHANGED <<migrations, cache, lastAppliedVersion, totalSuccess,
                   selected, success, installedRank, cbErr, result,
                   table, schema, runs, assigned, lastOk, boot>>

\* The waiting FOR UPDATE goes on when the rows it waits for are free: it
\* locks those of its snapshot that still exist.
lockGranted(p) ==
    /\ pc[p] = "lockWait"
    /\ LET rows == lockTx[p].waiting \cap Ranks(table)
       IN  /\ rows \cap LockedByOthers(p) = {}
           /\ lockTx' = [lockTx EXCEPT ![p].locked = rows, ![p].waiting = {}]
    /\ pc' = [pc EXCEPT ![p] = "migrateNext"]
    /\ UNCHANGED <<hVars, table, schema, runs, assigned, obs, lastOk, boot>>

\* unlock that leaves the lock transaction unfinished on the server: the
\* rows it has locked stay locked.
unlockKeepsRowLocks(p) ==
    /\ pc[p] = "commit"
    /\ table' = IF lockTx[p].failed THEN table
                ELSE {r \in table : r.installed_rank \notin lockTx[p].deleted}
                     \cup lockTx[p].inserted
    /\ lockTx' = [lockTx EXCEPT
                    ![p] = [NoTx EXCEPT !.locked = lockTx[p].locked]]
    /\ dbLock' = [dbLock EXCEPT ![p] = FALSE]
    /\ IF cbErr[p] # "nil"
       THEN /\ result' = [result EXCEPT ![p] = cbErr[p]]
            /\ pc' = [pc EXCEPT ![p] = "done"]
            /\ lastOk' = [valid |-> FALSE, registered |-> {}, table |-> {}]
            /\ UNCHANGED <<totalSuccess, migrations>>
       ELSE /\ totalSuccess' = [totalSuccess EXCEPT ![p] = @ + count[p]]
            /\ IF count[p] = 0
               THEN /\ result' = [result EXCEPT ![p] = "nil"]
                    /\ pc' = [pc EXCEPT ![p] = "done"]
                    /\ migrations' = [migrations EXCEPT ![p] = <<>>]
                    /\ lastOk' = [valid |-> TRUE,
                                  registered |-> obs[p].registered,
                                  table |-> table']
               ELSE /\ pc' = [pc EXCEPT ![p] = "lock"]
                    /\ UNCHANGED <<result, migrations, lastOk>>
    /\ obs' = [obs EXCEPT ![p].released = @ + 1]
    /\ UNCHANGED <<cache, lastAppliedVersion, count, selected, success,
                   installedRank, cbErr, schema, runs, assigned>>
    /\ UNCHANGED boot

\* The end of lock and the rest of the loop of Migrate: the lock
\* transaction commits (a failed transaction is rolled back), the
\* connection is released, h.dbLock is reset; Migrate returns the error of
\* the callback, returns nil when nothing was applied, or loops.
unlock(p) ==
    /\ pc[p] = "commit"
    /\ table' = IF lockTx[p].failed THEN table
                ELSE {r \in table : r.installed_rank \notin lockTx[p].deleted}
                     \cup lockTx[p].inserted
    /\ lockTx' = [lockTx EXCEPT ![p] = NoTx]
    /\ dbLock' = [dbLock EXCEPT ![p] = FALSE]
    /\ IF cbErr[p] # "nil"
       THEN /\ result' = [result EXCEPT ![p] = cbErr[p]]
            /\ pc' = [pc EXCEPT ![p] = "done"]
            /\ lastOk' = [valid |-> FALSE, registered |-> {}, table |-> {}]
            /\ UNCHANGED <<totalSuccess, migrations>>
       ELSE /\ totalSuccess' = [totalSuccess EXCEPT ![p] = @ + count[p]]
            /\ IF count[p] = 0
               THEN /\ result' = [result EXCEPT ![p] = "nil"]
                    /\ pc' = [pc EXCEPT ![p] = "done"]
                    /\ migrations' = [migrations EXCEPT ![p] = <<>>]
                    /\ lastOk' = [valid |-> TRUE,
                                  registered |-> obs[p].registered,
                                  table |-> table']
               ELSE /\ pc' = [pc EXCEPT ![p] = "lock"]
                    /\ UNCHANGED <<result, migrations, lastOk>>
    /\ obs' = [obs EXCEPT ![p].released = @ + 1]
    /\ UNCHANGED <<cache, lastAppliedVersion, count, selected, success,
                   installedRank, cbErr, schema, runs, assigned>>
    /\ UNCHANGED boot

(***************************************************************************)
(* migrationHistory.migrateNext and migrateSingle.                         *)
(***************************************************************************)

\* The highest rank of a committed success=false row of a version (0: none).
FailedRank(rows, version) ==
    LET f == {r.installed_rank : r \in {x \in rows : x.version = version /\ ~x.success}}
    IN  IF f = {} THEN 0 ELSE CHOOSE k \in f : \A j \in f : j <= k

\* migrateNext up to the call of migrateSingle.
migrateNext(p) ==
    /\ pc[p] = "migrateNext"
    /\ LET appliedMigrations == getAppliedMigrations(cache[p], table)
           r == reconcile(migrations[p], appliedMigrations)
       IN  /\ cache' = [cache EXCEPT ![p] = appliedMigrations]
           /\ migrations' = [migrations EXCEPT ![p] = r.migrations]
           /\ lastAppliedVersion' =
                  [lastAppliedVersion EXCEPT ![p] = r.lastAppliedVersion]
           /\ cbErr' = [cbErr EXCEPT ![p] = r.err]
           /\ selected' = [selected EXCEPT ![p] = r.next]
           /\ pc' = [pc EXCEPT ![p] =
                        IF r.next = 0 THEN "commit" ELSE "migrateSingle"]
           /\ obs' = [obs EXCEPT
                        ![p].passes = @ + 1,
                        ![p].retried =
                            IF r.next = 0 THEN 0
                            ELSE FailedRank(table, r.migrations[r.next].Version)]
    /\ UNCHANGED <<dbLock, totalSuccess, count, success, installedRank,
                   result, dbVars, runs, assigned, lastOk, boot>>

\* migrateSingle up to its call of addAppliedMigration, or its return with
\* the error of the transaction (then migrateNext calls addAppliedMigration
\* with success=false): the commands run in a transaction on a fresh
\* connection; command failAt fails (0: none).
migrateSingle(p, failAt) ==
    /\ pc[p] = "migrateSingle"
    /\ LET m == migrations[p][selected[p]]
           r == applyCommands(m.commands, failAt)
       IN  /\ failAt \in 0..Len(m.commands)
           /\ schema' = [schema EXCEPT ![m.Version] = @ + r.db.committed]
           /\ success' = [success EXCEPT ![p] = ~r.err]
           /\ cbErr' = [cbErr EXCEPT ![p] =
                           IF r.err THEN "migration failed" ELSE "nil"]
           /\ migrations' =
                  [migrations EXCEPT ![p][selected[p]].State =
                      IF r.err THEN @ ELSE MigrationSuccess]
           /\ obs' = [obs EXCEPT ![p].applied = Append(@, m.Version),
                                 ![p].cmdFailed = @ \/ r.err,
                                 ![p].schemaBefore = schema,
                                 ![p].tx =
                                     [called |-> TRUE, cbErr |-> failAt # 0,
                                      err |-> r.err, open |-> r.db.tx,
                                      effects |-> IF failAt = 0
                                                  THEN Len(m.commands)
                                                  ELSE failAt - 1,
                                      committed |-> r.db.committed]]
    /\ pc' = [pc EXCEPT ![p] = "delete"]
    /\ UNCHANGED <<cache, dbLock, lastAppliedVersion, totalSuccess, count,
                   selected, installedRank, result, table, lockTx, runs,
                   assigned, lastOk, boot>>


(***************************************************************************)
(* migrationHistory.addAppliedMigration, statement by statement.  The      *)
(* statements run on h.dbLock, the connection of the open lock             *)
(* transaction; getAppliedMigrations reads on another connection and sees  *)
(* committed rows only.                                                    *)
(***************************************************************************)

\* returnFromAdd that reports a recorded failure as one more applied
\* migration, so that the loop of Migrate goes on.
returnFromAddContinue(p, errored) ==
    IF success[p] /\ ~errored
    THEN /\ count' = [count EXCEPT ![p] = 1]
         /\ lastAppliedVersion' =
                [lastAppliedVersion EXCEPT
                    ![p] = migrations[p][selected[p]].Version]
         /\ pc' = [pc EXCEPT ![p] = "commit"]
         /\ UNCHANGED <<success, cbErr>>
    ELSE IF success[p]
    THEN /\ success' = [success EXCEPT ![p] = FALSE]
         /\ cbErr' = [cbErr EXCEPT ![p] = "unable to record"]
         /\ pc' = [pc EXCEPT ![p] = "delete"]
         /\ UNCHANGED <<count, lastAppliedVersion>>
    ELSE /\ pc' = [pc EXCEPT ![p] = "commit"]
         /\ count' = [count EXCEPT ![p] = 1]
         /\ cbErr' = [cbErr EXCEPT ![p] = "nil"]
         /\ UNCHANGED <<lastAppliedVersion, success>>

\* The return of addAppliedMigration into migrateSingle / migrateNext.  A
\* recorded success makes migrateNext return 1; an error of the success
\* record makes migrateSingle fail, and migrateNext then records the
\* failure; after the failure record migrateNext returns the apply error.
returnFromAdd(p, errored) ==
    IF success[p] /\ ~errored
    THEN /\ count' = [count EXCEPT ![p] = 1]
         /\ lastAppliedVersion' =
                [lastAppliedVersion EXCEPT
                    ![p] = migrations[p][selected[p]].Version]
         /\ pc' = [pc EXCEPT ![p] = "commit"]
         /\ UNCHANGED <<success, cbErr>>
    ELSE IF success[p]
    THEN /\ success' = [success EXCEPT ![p] = FALSE]
         /\ cbErr' = [cbErr EXCEPT ![p] = "unable to record"]
         /\ pc' = [pc EXCEPT ![p] = "delete"]
         /\ UNCHANGED <<count, lastAppliedVersion>>
    ELSE /\ pc' = [pc EXCEPT ![p] = "commit"]
         /\ UNCHANGED <<count, lastAppliedVersion, success, cbErr>>

\* addAppliedMigration without its DELETE.
DeleteTargetsNone(p) == {}

\* A DELETE that removes the previous faults only: the rows of the version
\* that record a failure.
DeleteTargetsFailed(p) ==
    {r.installed_rank :
        r \in {x \in table : /\ x.version = migrations[p][selected[p]].Version
                             /\ ~x.success
                             /\ x.installed_rank \notin lockTx[p].deleted}}

\* The rows "DELETE FROM <table> WHERE version = $1" finds.
DeleteTargets(p) ==
    {r.installed_rank :
        r \in {x \in table : /\ x.version = migrations[p][selected[p]].Version
                             /\ x.installed_rank \notin lockTx[p].deleted}}

\* The transaction of p with the rows of the given ranks deleted.
Deleted(p, rows) ==
    [lockTx[p] EXCEPT
        !.deleted = @ \cup rows,
        !.locked = @ \cup rows,
        !.waiting = {},
        !.inserted = {r \in @ : r.version # migrations[p][selected[p]].Version}]

\* "removes any previous faults": the DELETE of addAppliedMigration.  It
\* fails in a failed transaction and waits for rows another transaction has
\* locked.
deleteRows(p) ==
    /\ pc[p] = "delete"
    /\ dbLock[p]
    /\ IF lockTx[p].failed
       THEN /\ returnFromAdd(p, TRUE)
            /\ UNCHANGED lockTx
       ELSE IF DeleteTargets(p) \cap LockedByOthers(p) = {}
       THEN /\ lockTx' = [lockTx EXCEPT ![p] = Deleted(p, DeleteTargets(p))]
            /\ pc' = [pc EXCEPT ![p] = "rank"]
            /\ UNCHANGED <<count, lastAppliedVersion, success, cbErr>>
       ELSE /\ lockTx' = [lockTx EXCEPT ![p].waiting = DeleteTargets(p)]
            /\ pc' = [pc EXCEPT ![p] = "deleteWait"]
            /\ UNCHANGED <<count, lastAppliedVersion, success, cbErr>>
    /\ UNCHANGED <<migrations, cache, dbLock, totalSuccess, selected,
                   installedRank, result, table, schema, runs, assigned,
                   obs, lastOk, boot>>

\* The waiting DELETE goes on when the rows it waits for are free: it
\* deletes those that still exist.
deleteGranted(p) ==
    /\ pc[p] = "deleteWait"
    /\ LET rows == lockTx[p].waiting \cap Ranks(table)
       IN  /\ rows \cap LockedByOthers(p) = {}
           /\ lockTx' = [lockTx EXCEPT ![p] = Deleted(p, rows)]
    /\ pc' = [pc EXCEPT ![p] = "rank"]
    /\ UNCHANGED <<hVars, table, schema, runs, assigned, obs, lastOk, boot>>

\* installedRank, err := h.calculateInstalledRank()
nextRank(p) ==
    /\ pc[p] = "rank"
    /\ LET appliedMigrations == getAppliedMigrations(cache[p], table)
       IN  /\ cache' = [cache EXCEPT ![p] = appliedMigrations]
           /\ installedRank' =
                  [installedRank EXCEPT
                      ![p] = calculateInstalledRank(appliedMigrations)]
    /\ pc' = [pc EXCEPT ![p] = "insert"]
    /\ UNCHANGED <<migrations, dbLock, lastAppliedVersion, totalSuccess,
                   count, selected, success, cbErr, result, dbVars, runs,
                   assigned, obs, lastOk, boot>>

\* The INSERT waits while another open transaction has inserted a row of the
\* same rank or deleted the committed row of that rank.
InsertWaits(p) ==
    \E q \in Procs \ {p} :
        \/ installedRank[p] \in Ranks(lockTx[q].inserted)
        \/ installedRank[p] \in lockTx[q].deleted

\* The INSERT of addAppliedMigration: a committed row of the same rank is a
\* violation of the primary key, which fails the lock transaction.
insertRow(p) ==
    /\ pc[p] = "insert"
    /\ ~InsertWaits(p)
    /\ LET m == migrations[p][selected[p]]
       IN  IF installedRank[p] \in
                  (Ranks(table) \ lockTx[p].deleted) \cup Ranks(lockTx[p].inserted)
           THEN /\ lockTx' = [lockTx EXCEPT ![p].failed = TRUE,
                                            ![p].inserted = {},
                                            ![p].deleted = {}]
                /\ returnFromAdd(p, TRUE)
                /\ UNCHANGED <<migrations, assigned>>
           ELSE /\ lockTx' = [lockTx EXCEPT ![p].inserted =
                                 @ \cup {Row(installedRank[p], m, success[p])}]
                /\ migrations' =
                       [migrations EXCEPT
                           ![p][selected[p]].InstalledRank = installedRank[p]]
                /\ assigned' = Append(assigned, installedRank[p])
                /\ returnFromAdd(p, FALSE)
    /\ UNCHANGED <<cache, dbLock, totalSuccess, selected, installedRank,
                   result, table, schema, runs, obs, lastOk, boot>>

(***************************************************************************)
(* Specifications.                                                         *)
(***************************************************************************)

\* One program after another runs Database.Migrate with what it registered.
Run(p) ==
    \E regs \in Registrations :
        /\ runs < MaxRuns
        /\ Migrate(p, regs)

\* The program calls Database.Migrate again after a run that returned an
\* error: d.migrations still holds the definitions as that run left them.
Rerun(p) ==
    /\ pc[p] = "done"
    /\ result[p] # "nil"
    /\ runs < MaxRuns
    /\ Migrate(p, migrations[p])

Apply(p) == \E failAt \in 0..2 : migrateSingle(p, failAt)

Next ==
    \/ Run(1)
    \/ Rerun(1)
    \/ lock(1)
    \/ migrateNext(1)
    \/ Apply(1)
    \/ deleteRows(1)
    \/ nextRank(1)
    \/ insertRow(1)
    \/ unlock(1)

Spec == Init /\ [][Next]_vars

\* Definitions of programs whose source changed between releases: version
\* 1.0.0 with its commands in another order, under another description, and
\* both.
DriftDefinitions ==
    { <<"1.0.0", "first",   <<"A", "B">>>>,
      <<"1.0.0", "first",   <<"B", "A">>>>,
      <<"1.0.0", "renamed", <<"A", "B">>>>,
      <<"1.0.0", "renamed", <<"B", "A">>>>,
      <<"2.0.0", "second",  <<"C">>>>,
      <<"3.0.0", "third",   <<"C">>>> }

\* Every list of migrations that up to n AddMigration calls with definitions
\* of defs can leave in d.migrations.
RECURSIVE RegisteredFrom(_, _)
RegisteredFrom(defs, n) ==
    IF n = 0 THEN {<<>>}
    ELSE LET prev == RegisteredFrom(defs, n - 1)
         IN  prev \cup
             {AddMigration(ms, d[1], d[2], d[3]).migrations :
                  ms \in prev, d \in defs}

DriftRegistrations == RegisteredFrom(DriftDefinitions, 3)

\* One release of the program after another runs Database.Migrate.
RunDrift(p) ==
    \E regs \in DriftRegistrations :
        /\ runs < MaxRuns
        /\ Migrate(p, regs)

NextDrift ==
    \/ RunDrift(1)
    \/ Rerun(1)
    \/ lock(1)
    \/ migrateNext(1)
    \/ Apply(1)
    \/ deleteRows(1)
    \/ nextRank(1)
    \/ insertRow(1)
    \/ unlock(1)

SpecDrift == Init /\ [][NextDrift]_vars

\* The program calls d.AddMigration(version, description, prepare) before it
\* runs Migrate, with a preparation hook that schedules the command "A".
Register(p, version, description) ==
    /\ pc[p] = "idle"
    /\ Len(migrations[p]) < MaxRegistered
    /\ LET r == AddMigration(migrations[p], version, description, <<"A">>)
       IN  /\ migrations' = [migrations EXCEPT ![p] = r.migrations]
           /\ obs' = [obs EXCEPT ![p].added =
                         [called |-> TRUE, err |-> r.err,
                          before |-> migrations[p], version |-> version,
                          description |-> description]]
    /\ UNCHANGED <<pc, cache, dbLock, lastAppliedVersion, totalSuccess, count,
                   selected, success, installedRank, cbErr, result, dbVars,
                   runs, assigned, lastOk, boot>>

\* The versions and descriptions the program registers: two spellings of
\* one semantic version, the repeatable marker, a string that is no
\* version, and an empty description.
RegisterVersions == {"1.0", "1.0.0", "2.0.0", "R", "x"}

RegisterDescriptions == {"first", "other", ""}

\* The program runs Database.Migrate with what it registered.
StartRegistered(p) ==
    /\ pc[p] = "idle"
    /\ Migrate(p, migrations[p])

NextRegister ==
    \/ \E version \in RegisterVersions, description \in RegisterDescriptions :
           Register(1, version, description)
    \/ StartRegistered(1)
    \/ lock(1)
    \/ migrateNext(1)
    \/ migrateSingle(1, 0)
    \/ deleteRows(1)
    \/ nextRank(1)
    \/ insertRow(1)
    \/ unlock(1)

SpecRegister == Init /\ [][NextRegister]_vars

\* Two migrators run Migrate once each, concurrently, with the same five
\* migrations, whose commands succeed.
Start(p) ==
    /\ pc[p] = "idle"
    /\ Migrate(p, FiveMigrations)

NextConcurrent ==
    \E p \in Procs :
        \/ Start(p)
        \/ lock(p)
        \/ lockGranted(p)
        \/ migrateNext(p)
        \/ migrateSingle(p, 0)
        \/ deleteRows(p)
        \/ deleteGranted(p)
        \/ nextRank(p)
        \/ insertRow(p)
        \/ unlock(p)

SpecConcurrent == Init /\ [][NextConcurrent]_vars

\* A step of the migrator p at a statement of the database: the statement
\* is executed unless it has to wait.
Statement(p) ==
    \/ lock(p)
    \/ lockGranted(p)
    \/ migrateSingle(p, 0)
    \/ deleteRows(p)
    \/ deleteGranted(p)
    \/ insertRow(p)
    \/ unlock(p)

\* A step of the migrator p in its own code, which nothing holds up.
Compute(p) ==
    \/ Start(p)
    \/ migrateNext(p)
    \/ nextRank(p)

\* The migrators are processes of their own.  Each goes on while it has a
\* step to take: weak fairness of its statements, and of the steps of its
\* own code, which are enabled exactly at their place in Migrate.
SpecConcurrentFair ==
    /\ SpecConcurrent
    /\ \A p \in Procs :
           /\ WF_vars(Statement(p))
           /\ \/ []<>(pc[p] \notin {"idle", "migrateNext", "rank"})
              \/ []<><<Compute(p)>>_vars


(***************************************************************************)
(* Faults: the statements of the lock transaction fail, its commit fails,  *)
(* the callback of lock panics.                                            *)
(***************************************************************************)

\* lock when "SELECT * FROM <table> FOR UPDATE" fails: the callback of
\* Transaction returns the error before the callback of lock runs, the
\* transaction is rolled back, the deferred function resets h.dbLock and
\* releases the connection; Migrate returns the error.
lockFails(p) ==
    /\ pc[p] = "lock"
    /\ ~dbLock[p]
    /\ obs' = [obs EXCEPT ![p].conns = @ + 1, ![p].released = @ + 1]
    /\ result' = [result EXCEPT ![p] = "unable to lock"]
    /\ pc' = [pc EXCEPT ![p] = "done"]
    /\ lastOk' = [valid |-> FALSE, registered |-> {}, table |-> {}]
    /\ UNCHANGED <<migrations, cache, dbLock, lastAppliedVersion,
                   totalSuccess, count, selected, success, installedRank,
                   cbErr, dbVars, runs, assigned>>
    /\ UNCHANGED boot

\* panics that leaves the lock as it is: no recover, no deferred release.
panicsUnrecovered(p) ==
    /\ pc[p] \in {"migrateNext", "migrateSingle", "delete", "rank", "insert"}
    /\ dbLock[p]
    /\ cbErr' = [cbErr EXCEPT ![p] = "nil"]
    /\ result' = [result EXCEPT ![p] = "panic"]
    /\ pc' = [pc EXCEPT ![p] = "done"]
    /\ lastOk' = [valid |-> FALSE, registered |-> {}, table |-> {}]
    /\ UNCHANGED <<migrations, cache, dbLock, lastAppliedVersion,
                   totalSuccess, count, selected, success, installedRank,
                   dbVars, runs, assigned, obs>>
    /\ UNCHANGED boot

\* The callback of lock panics: the goroutine of Transaction recovers, the
\* panic becomes the error of the callback of Transaction, the lock
\* transaction is rolled back; cbErr was never assigned, lock returns the
\* error of Transaction after its deferred function has reset h.dbLock and
\* released the connection.
panics(p) ==
    /\ pc[p] \in {"migrateNext", "migrateSingle", "delete", "rank", "insert"}
    /\ dbLock[p]
    /\ lockTx' = [lockTx EXCEPT ![p] = NoTx]
    /\ dbLock' = [dbLock EXCEPT ![p] = FALSE]
    /\ cbErr' = [cbErr EXCEPT ![p] = "nil"]
    /\ result' = [result EXCEPT ![p] = "panic"]
    /\ pc' = [pc EXCEPT ![p] = "done"]
    /\ lastOk' = [valid |-> FALSE, registered |-> {}, table |-> {}]
    /\ obs' = [obs EXCEPT ![p].released = @ + 1]
    /\ UNCHANGED <<migrations, cache, lastAppliedVersion, totalSuccess,
                   count, selected, success, installedRank, table, schema,
                   runs, assigned>>
    /\ UNCHANGED boot

\* The end of lock when the commit of the lock transaction fails: nothing
\* of the transaction is committed; lock returns the error of the callback
\* if it has one, the error of Transaction otherwise.
commitFails(p) ==
    /\ pc[p] = "commit"
    /\ lockTx' = [lockTx EXCEPT ![p] = NoTx]
    /\ dbLock' = [dbLock EXCEPT ![p] = FALSE]
    /\ result' = [result EXCEPT ![p] =
                     IF cbErr[p] # "nil" THEN cbErr[p] ELSE "unable to commit"]
    /\ pc' = [pc EXCEPT ![p] = "done"]
    /\ lastOk' = [valid |-> FALSE, registered |-> {}, table |-> {}]
    /\ obs' = [obs EXCEPT ![p].released = @ + 1,
                          ![p].commitFailed = TRUE]
    /\ UNCHANGED <<migrations, cache, lastAppliedVersion, totalSuccess,
                   count, selected, success, installedRank, cbErr, table,
                   schema, runs, assigned>>
    /\ UNCHANGED boot

\* The DELETE of addAppliedMigration fails: the lock transaction is failed
\* and addAppliedMigration returns the error.
deleteFails(p) ==
    /\ pc[p] = "delete"
    /\ dbLock[p]
    /\ lockTx' = [lockTx EXCEPT ![p].failed = TRUE, ![p].inserted = {},
                                ![p].deleted = {}]
    /\ returnFromAdd(p, TRUE)
    /\ UNCHANGED <<migrations, cache, dbLock, totalSuccess, selected,
                   installedRank, result, table, schema, runs, assigned,
                   obs, lastOk, boot>>

\* The INSERT of addAppliedMigration fails.
insertFails(p) ==
    /\ pc[p] = "insert"
    /\ lockTx' = [lockTx EXCEPT ![p].failed = TRUE, ![p].inserted = {},
                                ![p].deleted = {}]
    /\ returnFromAdd(p, TRUE)
    /\ UNCHANGED <<migrations, cache, dbLock, totalSuccess, selected,
                   installedRank, result, table, schema, runs, assigned,
                   obs, lastOk, boot>>

\* The definitions of the programs that run against a database that may
\* fail.
FaultDefinitions ==
    { <<"1.0.0", "first",  <<"A", "B">>>>,
      <<"2.0.0", "second", <<"C">>>> }

FaultRegistrations == RegisteredFrom(FaultDefinitions, 2)

RunFault(p) ==
    \E regs \in FaultRegistrations :
        /\ runs < MaxRuns
        /\ Migrate(p, regs)

\* One program runs Database.Migrate against a database that may fail.
NextFault ==
    \/ RunFault(1)
    \/ Rerun(1)
    \/ lock(1)
    \/ lockFails(1)
    \/ migrateNext(1)
    \/ Apply(1)
    \/ deleteRows(1)
    \/ deleteFails(1)
    \/ nextRank(1)
    \/ insertRow(1)
    \/ insertFails(1)
    \/ unlock(1)
    \/ commitFails(1)
    \/ panics(1)

SpecFault == Init /\ [][NextFault]_vars

(***************************************************************************)
(* Calls out of place: addAppliedMigration without the lock, lock while    *)
(* the lock is held.                                                       *)
(***************************************************************************)

\* addAppliedMigration without its check of h.dbLock: the DELETE takes
\* effect at once.
addAppliedMigrationUnchecked(p, version) ==
    /\ pc[p] \in {"lock", "done"}
    /\ ~dbLock[p]
    /\ ~obs[p].record.called
    /\ table' = {r \in table : r.version # version}
    /\ obs' = [obs EXCEPT ![p].record = [called |-> TRUE, err |-> "nil"]]
    /\ UNCHANGED <<pc, hVars, lockTx, schema, runs, assigned, lastOk, boot>>

\* addAppliedMigration(info, ..) for a definition of the given version
\* while h.dbLock is nil: it returns "method can only be invoked when table
\* is locked" before any statement.
addAppliedMigrationUnlocked(p, version) ==
    /\ pc[p] \in {"lock", "done"}
    /\ ~dbLock[p]
    /\ ~obs[p].record.called
    /\ obs' = [obs EXCEPT
                  ![p].record = [called |-> TRUE, err |-> "not locked"]]
    /\ UNCHANGED <<pc, hVars, dbVars, runs, assigned, lastOk, boot>>

\* lock that takes a connection before it finds the lock held.
lockAgainWithConn(p) ==
    /\ dbLock[p]
    /\ pc[p] \in {"migrateNext", "migrateSingle", "delete", "rank", "insert"}
    /\ ~obs[p].relock.called
    /\ obs' = [obs EXCEPT
                  ![p].relock = [called |-> TRUE, err |-> "already locked"],
                  ![p].conns = @ + 1]
    /\ UNCHANGED <<pc, hVars, dbVars, runs, assigned, lastOk, boot>>

\* lock(callback) called from the callback of lock, while h.dbLock is not
\* nil: it returns "schema migrationHistory table is already locked"
\* before it takes a connection and without running the callback.
lockAgain(p) ==
    /\ dbLock[p]
    /\ pc[p] \in {"migrateNext", "migrateSingle", "delete", "rank", "insert"}
    /\ ~obs[p].relock.called
    /\ obs' = [obs EXCEPT
                  ![p].relock = [called |-> TRUE, err |-> "already locked"]]
    /\ UNCHANGED <<pc, hVars, dbVars, runs, assigned, lastOk, boot>>

Record(p) ==
    \E i \in 1..Len(migrations[p]) :
        addAppliedMigrationUnlocked(p, migrations[p][i].Version)

\* One program runs Database.Migrate; addAppliedMigration and lock are also
\* called out of place.
NextMisuse ==
    \/ RunFault(1)
    \/ lock(1)
    \/ lockAgain(1)
    \/ migrateNext(1)
    \/ Apply(1)
    \/ deleteRows(1)
    \/ nextRank(1)
    \/ insertRow(1)
    \/ unlock(1)
    \/ Record(1)

SpecMisuse == Init /\ [][NextMisuse]_vars

(***************************************************************************)
(* migrationHistory.createTable and createSchema: the schema and the       *)
(* history table are created, under retry, when they do not exist.         *)
(***************************************************************************)

\* retry.New(10, ..): the number of attempts of one retry.
MaxAttempts == 10

\* retries.Execute goes on after a failed attempt while attempts are left;
\* after the last one it returns the error of that attempt.
WillRetry(attempt) == attempt < MaxAttempts

\* The databases a first run may find: nothing, the schema, the schema and
\* the history table.
InitBootstrap ==
    /\ InitProgram
    /\ boot \in {[schema |-> s, table |-> t,
                   retry |-> [p \in Procs |-> NoRetry]] :
                      s \in BOOLEAN, t \in BOOLEAN}
    /\ boot.table => boot.schema

\* A step of createTable: p goes on at next, or Migrate returns err.  The
\* attempt counts inside retries.Execute only.
bootStep(p, next, err, attempt) ==
    /\ boot' = [boot EXCEPT
                   !.retry[p].attempt =
                       IF err = "nil" /\ next \in {"createSchema",
                               "createSchemaTx", "createTable", "createTableTx"}
                       THEN attempt ELSE 0,
                   !.schema = IF next = "tableExists" THEN TRUE ELSE @,
                   !.table = IF next = "lock" THEN TRUE ELSE @]
    /\ IF err = "nil"
       THEN /\ pc' = [pc EXCEPT ![p] = next]
            /\ UNCHANGED <<result, lastOk>>
       ELSE /\ pc' = [pc EXCEPT ![p] = "done"]
            /\ result' = [result EXCEPT ![p] = err]
            /\ lastOk' = [valid |-> FALSE, registered |-> {}, table |-> {}]
    /\ UNCHANGED <<migrations, cache, dbLock, lastAppliedVersion,
                   totalSuccess, count, selected, success, installedRank,
                   cbErr, dbVars, runs, assigned, obs>>

\* A failed attempt: retries.Execute runs the next attempt, or returns the
\* error after the last.
attemptFailed(p, again, err) ==
    IF WillRetry(boot.retry[p].attempt)
    THEN bootStep(p, again, "nil", boot.retry[p].attempt + 1)
    ELSE bootStep(p, "done", err, 0)

\* createTable, its first check: h.schemaExists(); an error of the query is
\* returned at once; createSchema is called when the schema does not exist.
schemaExists(p, fails) ==
    /\ pc[p] = "schemaExists"
    /\ IF fails THEN bootStep(p, "done", "unable to check", 0)
       ELSE IF boot.schema THEN bootStep(p, "tableExists", "nil", 0)
       ELSE bootStep(p, "createSchema", "nil", 1)

\* An attempt of createSchema that goes on to CREATE SCHEMA without the
\* check of existence.
createSchemaUnchecked(p, fails) ==
    /\ pc[p] = "createSchema"
    /\ IF fails
       THEN attemptFailed(p, "createSchema", "unable to create schema")
       ELSE bootStep(p, "createSchemaTx", "nil", boot.retry[p].attempt)

\* An attempt of createSchema up to its transaction: the schema is looked
\* for again; the attempt succeeds without a statement when it exists.
createSchema(p, fails) ==
    /\ pc[p] = "createSchema"
    /\ IF fails
       THEN attemptFailed(p, "createSchema", "unable to create schema")
       ELSE IF boot.schema THEN bootStep(p, "tableExists", "nil", 0)
       ELSE bootStep(p, "createSchemaTx", "nil", boot.retry[p].attempt)

\* The transaction of the attempt: CREATE SCHEMA fails when the statement
\* fails, and when the schema exists by now.
createSchemaTx(p, fails) ==
    /\ pc[p] = "createSchemaTx"
    /\ IF fails
       THEN attemptFailed(p, "createSchema", "unable to create schema")
       ELSE IF boot.schema
       THEN attemptFailed(p, "createSchema", "unable to create schema")
       ELSE bootStep(p, "tableExists", "nil", 0)

\* createTable after the schema exists: h.tableExists(); createTable
\* returns nil when the table exists, and Migrate goes on to its loop.
tableExists(p, fails) ==
    /\ pc[p] = "tableExists"
    /\ IF fails THEN bootStep(p, "done", "unable to check", 0)
       ELSE IF boot.table THEN bootStep(p, "lock", "nil", 0)
       ELSE bootStep(p, "createTable", "nil", 1)

\* An attempt of the retry of createTable that goes on to CREATE TABLE
\* without the check of existence.
createTableUnchecked(p, fails) ==
    /\ pc[p] = "createTable"
    /\ IF fails
       THEN attemptFailed(p, "createTable", "unable to create table")
       ELSE bootStep(p, "createTableTx", "nil", boot.retry[p].attempt)

\* An attempt of the retry of createTable up to its transaction.
createTable(p, fails) ==
    /\ pc[p] = "createTable"
    /\ IF fails
       THEN attemptFailed(p, "createTable", "unable to create table")
       ELSE IF boot.table THEN bootStep(p, "lock", "nil", 0)
       ELSE bootStep(p, "createTableTx", "nil", boot.retry[p].attempt)

\* The transaction of the attempt: CREATE TABLE and CREATE INDEX.
createTableTx(p, fails) ==
    /\ pc[p] = "createTableTx"
    /\ IF fails
       THEN attemptFailed(p, "createTable", "unable to create table")
       ELSE IF boot.table
       THEN attemptFailed(p, "createTable", "unable to create table")
       ELSE bootStep(p, "lock", "nil", 0)

\* A step of createTable or createSchema, with or without a failure of its
\* statement.
Bootstrap(p) ==
    \E fails \in BOOLEAN :
        IF pc[p] = "schemaExists" THEN schemaExists(p, fails)
        ELSE IF pc[p] = "createSchema" THEN createSchema(p, fails)
        ELSE IF pc[p] = "createSchemaTx" THEN createSchemaTx(p, fails)
        ELSE IF pc[p] = "tableExists" THEN tableExists(p, fails)
        ELSE IF pc[p] = "createTable" THEN createTable(p, fails)
        ELSE createTableTx(p, fails)

\* The registration of the programs that bootstrap.
OneMigration == << NewMigration("1.0.0", "first", <<"A">>) >>

\* A program runs Database.Migrate, for the first time or again.
StartBootstrap(p) ==
    /\ runs < MaxRuns
    /\ Migrate(p, OneMigration)

\* Programs run Database.Migrate concurrently against a database that may
\* lack the schema and the history table.
NextBootstrap ==
    \E p \in Procs :
        \/ StartBootstrap(p)
        \/ Bootstrap(p)
        \/ lock(p)
        \/ lockGranted(p)
        \/ migrateNext(p)
        \/ migrateSingle(p, 0)
        \/ deleteRows(p)
        \/ deleteGranted(p)
        \/ nextRank(p)
        \/ insertRow(p)
        \/ unlock(p)

SpecBootstrap == InitBootstrap /\ [][NextBootstrap]_vars

\* A step of createTable or createSchema against a database whose
\* statements fail only when the object they create exists.
Race(p) ==
    IF pc[p] = "schemaExists" THEN schemaExists(p, FALSE)
    ELSE IF pc[p] = "createSchema" THEN createSchema(p, FALSE)
    ELSE IF pc[p] = "createSchemaTx" THEN createSchemaTx(p, FALSE)
    ELSE IF pc[p] = "tableExists" THEN tableExists(p, FALSE)
    ELSE IF pc[p] = "createTable" THEN createTable(p, FALSE)
    ELSE createTableTx(p, FALSE)

\* Programs run Database.Migrate concurrently, and again, against a
\* database that may lack the schema and the history table.
NextRace ==
    \E p \in Procs :
        \/ StartBootstrap(p)
        \/ Race(p)
        \/ lock(p)
        \/ lockGranted(p)
        \/ migrateNext(p)
        \/ migrateSingle(p, 0)
        \/ deleteRows(p)
        \/ deleteGranted(p)
        \/ nextRank(p)
        \/ insertRow(p)
        \/ unlock(p)

SpecRace == InitBootstrap /\ [][NextRace]_vars

(***************************************************************************)
(* Properties.                                                              *)
(***************************************************************************)

AllDone == \A p \in Procs : pc[p] = "done"

\* C1: when two processes run Migrate concurrently on the same empty history
\* table with the same five pending migrations, the final ledger holds
\* exactly five rows with pairwise distinct installed_rank and the commands
\* of each migration are committed to the schema exactly once.
C1_FiveRowsAppliedOnce ==
    AllDone =>
        /\ Cardinality(table) = 5
        /\ Cardinality(Ranks(table)) = 5
        /\ \A i \in 1..Len(FiveMigrations) :
               schema[FiveMigrations[i].Version] = Len(FiveMigrations[i].script)

\* A process is inside the callback of lock: the statement that locks the
\* rows has returned and the callback has not.
InCallback(p) ==
    pc[p] \in {"migrateNext", "migrateSingle", "delete", "deleteWait",
               "rank", "insert"}

\* C2: at most one process is inside the callback of lock at any time,
\* whatever the history table held when the row lock was taken.
C2_MutualExclusion == Cardinality({p \in Procs : InCallback(p)}) <= 1


HasSuccessRow(version) ==
    \E r \in table : r.version = version /\ r.success

RowsOf(rows, version) == {r \in rows : r.version = version}

\* C3: once the ledger holds a success=true row for a non-repeatable
\* version, no command of that version is committed again, and no
\* reconciliation pass selects that version as the migration to apply.
C3_NeverReapplied ==
    /\ [](\A p \in Procs :
            (pc[p] = "migrateSingle"
             /\ migrations[p][selected[p]].Version # "R")
            => ~HasSuccessRow(migrations[p][selected[p]].Version))
    /\ [][\A v \in Versions \ {"R"} :
            HasSuccessRow(v) => schema'[v] = schema[v]]_vars

\* A later run has reconciled a definition whose version was applied with
\* success by an earlier run, and goes on to apply another one.
C3_Witness ==
    /\ runs >= 2
    /\ pc[1] = "migrateSingle"
    /\ obs[1].applied = <<>>
    /\ \E i \in 1..Len(migrations[1]) :
           /\ migrations[1][i].Version # "R"
           /\ migrations[1][i].State = MigrationSuccess
           /\ HasSuccessRow(migrations[1][i].Version)

\* The run of p has returned nil right after a run that returned nil with
\* the same registered set.
SecondRun(p) ==
    /\ pc[p] = "done"
    /\ result[p] = "nil"
    /\ obs[p].prev.valid
    /\ obs[p].prev.registered = obs[p].registered

\* C4 as claimed: a second run with the same registered set (repeatable
\* migrations included) leaves the ledger identical to the ledger after the
\* first run.
C4_SecondRunSameLedger ==
    \A p \in Procs : SecondRun(p) => table = obs[p].prev.table

\* C4 as amended: the second run leaves every row of a non-repeatable
\* version as it was; the row of a registered repeatable migration is
\* replaced by one success=true row of a higher installed_rank.
C4_SecondRunSameVersionedRows ==
    \A p \in Procs :
        SecondRun(p) =>
            /\ {r \in table : r.version # "R"}
                   = {r \in obs[p].prev.table : r.version # "R"}
            /\ IF \E d \in obs[p].registered : d[1] = "R"
               THEN /\ Cardinality(RowsOf(table, "R")) = 1
                    /\ \A r \in RowsOf(table, "R") :
                           \E o \in RowsOf(obs[p].prev.table, "R") :
                               /\ r.installed_rank > o.installed_rank
                               /\ r.description = o.description
                               /\ r.success /\ o.success
               ELSE RowsOf(table, "R") = RowsOf(obs[p].prev.table, "R")

\* A second run over a set with non-repeatable and repeatable migrations.
C4_Witness ==
    /\ SecondRun(1)
    /\ \E d \in obs[1].registered : d[1] = "R"
    /\ \E d \in obs[1].registered : d[1] # "R"
    /\ RowsOf(table, "R") # {}

\* No two definitions of the set have the same semantic version.
ValidlyRegistered(defs) ==
    \A d, e \in defs : d # e => (d[1] = "R" \/ e[1] = "R"
                                 \/ Compare(d[1], e[1]) # 0)

\* The safety part of C5: a run that starts on an empty ledger with a validly registered set
\* and in which no command fails takes at most one lock section per
\* migration plus one, and ends: it returns nil after exactly that many
\* sections, with exactly one row per registered migration, success=true.
C5_SectionsAndRows ==
    \A p \in Procs :
        LET o == obs[p]
        IN  (/\ o.startTable = {}
             /\ ~o.cmdFailed
             /\ ValidlyRegistered(o.registered)
             /\ o.registered # {}) =>
                /\ o.sections <= Cardinality(o.registered) + 1
                /\ Len(o.applied) <= Cardinality(o.registered)
                /\ pc[p] = "done" =>
                      /\ result[p] = "nil"
                      /\ o.sections = Cardinality(o.registered) + 1
                      /\ Cardinality(table) = Cardinality(o.registered)
                      /\ \A d \in o.registered :
                             \E r \in table :
                                 /\ r.version = d[1]
                                 /\ r.description = d[2]
                                 /\ r.success

\* The statement the run of p is at can be executed: lock does not find the
\* history locked already, addAppliedMigration finds it locked, and the
\* migration to apply is one of the definitions.
Runnable(p) ==
    /\ pc[p] = "lock" => ~dbLock[p]
    /\ pc[p] \in {"migrateNext", "migrateSingle", "delete", "rank", "insert",
                  "commit"} => dbLock[p] /\ lockTx[p].open
    /\ pc[p] \in {"migrateSingle", "delete", "rank", "insert"}
           => selected[p] \in 1..Len(migrations[p])
    /\ pc[p] = "insert" => ~InsertWaits(p)
    /\ pc[p] \notin {"lockWait", "deleteWait"}

\* C5, with termination: C5_SectionsAndRows bounds the number of lock
\* sections of the run, and a run that has not returned is never at a
\* statement it cannot execute, so that it goes on until it returns.
C5_RunTerminates ==
    /\ C5_SectionsAndRows
    /\ \A p \in Procs : Runnable(p)

\* A run from the empty ledger with a repeatable and two other migrations
\* has returned.
C5_Witness ==
    /\ pc[1] = "done"
    /\ obs[1].startTable = {}
    /\ ~obs[1].cmdFailed
    /\ Cardinality(obs[1].registered) = 3
    /\ \E d \in obs[1].registered : d[1] = "R"

\* Rows of the given set are in rank order in non-decreasing version order.
RankOrdered(rows) ==
    \A r, q \in rows :
        r.installed_rank < q.installed_rank =>
            Compare(r.version, q.version) <= 0

\* C6 as claimed: in every reachable state the rows of non-repeatable
\* versions, taken in installed_rank order, have non-decreasing version.
C6_RowsInVersionOrder ==
    RankOrdered({r \in table : r.version # "R"})

\* C6 as amended: the success=true rows of non-repeatable versions, taken in
\* installed_rank order, have non-decreasing version.
C6_SuccessRowsInVersionOrder ==
    RankOrdered({r \in table : r.version # "R" /\ r.success})

\* The ledger holds successes of three versions, the last of them recorded
\* at a retry of a failed apply.
C6_Witness ==
    /\ Cardinality({r \in table : r.version # "R" /\ r.success}) = 3
    /\ \E r \in table : r.version = "3.0.0" /\ r.success /\ r.installed_rank > 3

\* p is in a lock section, after the reconciliation pass of the section.
Reconciled(p) ==
    pc[p] \in {"migrateSingle", "delete", "rank", "insert", "commit"}

\* C7: a lock section has one reconciliation pass and at most one apply,
\* which follows the pass; the non-repeatable versions a run applies are
\* strictly increasing; a repeatable migration is selected only when every
\* non-repeatable one of the set is in state Success.
C7_OneApplyPerSection ==
    \A p \in Procs :
        LET o == obs[p]
        IN  /\ Len(o.applied) <= o.sections
            /\ o.passes <= o.sections
            /\ Reconciled(p) => o.passes = o.sections
            /\ pc[p] = "migrateSingle" => Len(o.applied) = o.sections - 1
            /\ \A i, j \in 1..Len(o.applied) :
                   (i < j /\ o.applied[i] # "R" /\ o.applied[j] # "R")
                   => Compare(o.applied[i], o.applied[j]) < 0
            /\ \A i, j \in 1..Len(o.applied) :
                   (i < j /\ o.applied[i] = "R") => o.applied[j] = "R"
            /\ (pc[p] = "migrateSingle" /\ migrations[p][selected[p]].Repeat)
               => \A i \in 1..Len(migrations[p]) :
                      \/ migrations[p][i].Repeat
                      \/ migrations[p][i].State = MigrationSuccess

\* A run has applied three versions and has selected the repeatable one.
C7_Witness ==
    /\ pc[1] = "migrateSingle"
    /\ Len(obs[1].applied) = 3
    /\ migrations[1][selected[1]].Repeat

Max(S) == CHOOSE k \in S : \A j \in S : j <= k

\* C8: the ranks of the rows written are strictly increasing in the order
\* of the writes, so none is used twice; the first is 1 and every other is
\* the highest rank known plus one.
C8_RanksIncrease ==
    /\ \A i, j \in 1..Len(assigned) : i < j => assigned[i] < assigned[j]
    /\ Len(assigned) > 0 => assigned[1] = 1
    /\ \A i \in 2..Len(assigned) : assigned[i] = assigned[i - 1] + 1
    /\ \A p \in Procs :
           pc[p] = "insert" =>
               installedRank[p] =
                   IF table = {} THEN 1 ELSE Max(Ranks(table)) + 1

\* A failed row is replaced: its version is written a second time, with
\* the next rank, while the row of the first write is deleted.
C8_Witness ==
    /\ Len(assigned) >= 3
    /\ pc[1] = "commit"
    /\ lockTx[1].deleted # {}
    /\ lockTx[1].inserted # {}

\* The apply of p failed and its failure is being recorded or was recorded.
FailedApply(p) ==
    /\ pc[p] \in {"delete", "rank", "insert", "commit"}
    /\ cbErr[p] = "migration failed"

\* C9 as claimed: when a command of the selected migration fails, nothing
\* the migration did is committed, and at the end of the section the ledger
\* holds for its version exactly one row, with success=false.
C9_FailureRolledBackAndRecorded ==
    \A p \in Procs :
        /\ FailedApply(p) => schema = obs[p].schemaBefore
        /\ (pc[p] = "done" /\ result[p] = "migration failed") =>
               LET v == migrations[p][selected[p]].Version
               IN  /\ Cardinality(RowsOf(table, v)) = 1
                   /\ \A r \in RowsOf(table, v) : ~r.success

\* The part of C9 about the ledger alone.
C9_FailureRecorded ==
    \A p \in Procs :
        (pc[p] = "done" /\ result[p] = "migration failed") =>
            LET v == migrations[p][selected[p]].Version
            IN  /\ Cardinality(RowsOf(table, v)) = 1
                /\ \A r \in RowsOf(table, v) : ~r.success

\* The part of C9 about the commands, for migrations without a command that
\* opens a transaction of its own.
C9_PlainCommandsRolledBack ==
    \A p \in Procs :
        (/\ FailedApply(p)
         /\ \A i \in 1..Len(migrations[p][selected[p]].script) :
                ~IsNested(migrations[p][selected[p]].script[i]))
        => schema = obs[p].schemaBefore

\* C10: a version with a committed success=false row is pending after the
\* reconciliation pass, and it is the migration the pass selects when all
\* before it are applied; when the retry succeeds the ledger holds exactly
\* one row of the version, success=true, of a rank higher than the rank of
\* the failed row.
C10_FailedIsRetried ==
    \A p \in Procs :
        /\ pc[p] = "migrateSingle" =>
               /\ \A i \in 1..Len(migrations[p]) :
                      FailedRank(table, migrations[p][i].Version) > 0
                      => /\ migrations[p][i].State = MigrationPending
                         /\ selected[p] <= i
               /\ \A i \in 1..(selected[p] - 1) :
                      migrations[p][i].State = MigrationSuccess
        /\ (pc[p] = "lock" /\ obs[p].retried > 0) =>
               LET rows == RowsOf(table, lastAppliedVersion[p])
               IN  /\ Cardinality(rows) = 1
                   /\ \A r \in rows : /\ r.success
                                      /\ r.installed_rank > obs[p].retried
                                      /\ r.installed_rank = assigned[Len(assigned)]

\* The retry of a version with a failed row has succeeded.
C10_Witness ==
    /\ pc[1] = "lock"
    /\ obs[1].retried > 0
    /\ runs >= 2

\* A command of the run of p has failed and the run has not returned yet.
AfterFailure(p) ==
    /\ obs[p].cmdFailed
    /\ pc[p] \notin {"idle", "done"}

\* C11: after a migration failed to apply, the run commits no further
\* command, applies no further migration and takes the lock no more; it
\* returns the error of the apply, and the success=false row of the version
\* is in the ledger when it returns.
C11_RunStopsAfterFailure ==
    /\ [](\A p \in Procs :
            /\ AfterFailure(p) => pc[p] \in {"delete", "rank", "insert", "commit"}
            /\ (pc[p] = "done" /\ obs[p].cmdFailed) =>
                   /\ result[p] = "migration failed"
                   /\ \E r \in table :
                          /\ r.version = obs[p].applied[Len(obs[p].applied)]
                          /\ ~r.success)
    /\ [][\A p \in Procs :
            AfterFailure(p) =>
                /\ schema' = schema
                /\ obs'[p].sections = obs[p].sections
                /\ obs'[p].applied = obs[p].applied]_vars

\* A run has returned after the failure of its third apply.
C11_Witness ==
    /\ pc[1] = "done"
    /\ obs[1].cmdFailed
    /\ Len(obs[1].applied) = 3

\* Definition i of p is non-repeatable, its version has no ledger row and is
\* not above the highest version recorded with success=true.
OutOfOrderAt(p, i) ==
    /\ migrations[p][i].Version # "R"
    /\ RowsOf(table, migrations[p][i].Version) = {}
    /\ \E r \in table :
           /\ r.version # "R"
           /\ r.success
           /\ Compare(migrations[p][i].Version, r.version) <= 0

\* Definition i of p differs, in checksum or description, from the
\* success=true row of its version.
DriftAt(p, i) ==
    \E r \in RowsOf(table, migrations[p][i].Version) :
        /\ r.version # "R"
        /\ r.success
        /\ \/ r.checksum # migrations[p][i].Checksum
           \/ r.description # migrations[p][i].Description

\* The pass of the lock section p is in ended without selecting a migration.
PassOnly(p) ==
    /\ pc[p] = "commit"
    /\ Len(obs[p].applied) = obs[p].sections - 1

\* C12 as claimed: a pass over a definition that is out of order fails with
\* the out-of-order error and applies nothing.
C12_OutOfOrderError ==
    \A p \in Procs :
        (Reconciled(p) /\ \E i \in 1..Len(migrations[p]) : OutOfOrderAt(p, i))
        => PassOnly(p) /\ cbErr[p] = "out of order"

\* C12 as amended: a pass over a definition that is out of order fails and
\* applies nothing; its error is the out-of-order error unless a definition
\* earlier in the sorted list has a checksum or description mismatch.
C12_OutOfOrderOrEarlierDrift ==
    \A p \in Procs :
        \A i \in 1..Len(migrations[p]) :
            (Reconciled(p) /\ OutOfOrderAt(p, i)) =>
                /\ PassOnly(p)
                /\ cbErr[p] \in {"out of order", "checksum mismatch",
                                 "description mismatch"}
                /\ (\A j \in 1..(i - 1) : ~DriftAt(p, j))
                       => cbErr[p] = "out of order"
                /\ cbErr[p] # "out of order"
                       => \E j \in 1..(i - 1) : DriftAt(p, j)

\* The ledger has 3.0.0 successful and only 1.0.0 is registered: the pass
\* has failed with the out-of-order error.
C12_Witness ==
    /\ PassOnly(1)
    /\ Len(migrations[1]) = 1
    /\ OutOfOrderAt(1, 1)
    /\ cbErr[1] = "out of order"

\* C13 as claimed: Database.Migrate with no migration registered, on a
\* ledger that records 1.0.0 as applied, returns the error of an applied
\* migration that is not resolved locally.
C13_OrphanWithNothingRegistered ==
    \A p \in Procs :
        (/\ pc[p] = "done"
         /\ obs[p].registered = {}
         /\ \E r \in obs[p].startTable : r.version = "1.0.0" /\ r.success)
        => result[p] = "not resolved locally"

\* The ledger holds a row of a non-repeatable version that is the version
\* of no definition of p.
OrphanRow(p) ==
    \E r \in table :
        /\ r.version # "R"
        /\ \A i \in 1..Len(migrations[p]) : migrations[p][i].Version # r.version

\* C14: a pass over at least one definition, on a ledger with a row of a
\* non-repeatable version that no definition has, fails with the orphan
\* error and applies nothing, unless a definition is out of order or
\* differs from its success=true row: then the pass fails with that error.
C14_OrphanError ==
    \A p \in Procs :
        (Reconciled(p) /\ Len(migrations[p]) >= 1 /\ OrphanRow(p)) =>
            /\ PassOnly(p)
            /\ cbErr[p] # "nil"
            /\ (\A i \in 1..Len(migrations[p]) :
                    ~DriftAt(p, i) /\ ~OutOfOrderAt(p, i))
               => cbErr[p] = "not resolved locally"

\* The only row of a version that is no longer registered is the record of
\* a failed apply: the pass has failed with the orphan error.
C14_Witness ==
    /\ PassOnly(1)
    /\ cbErr[1] = "not resolved locally"
    /\ Len(migrations[1]) >= 1
    /\ \E r \in table :
           /\ r.version # "R"
           /\ ~r.success
           /\ \A i \in 1..Len(migrations[1]) :
                  migrations[1][i].Version # r.version

\* The SQL commands of the definitions.
Commands == {"A", "B", "C"}

\* The checksum of a definition prepared once with the given script.
ChecksumOf(script) == Prepare(NewMigration("1.0.0", "first", script)).Checksum

\* Definition i of p has another checksum than the success=true row of its
\* version.
ChecksumDriftAt(p, i) ==
    \E r \in RowsOf(table, migrations[p][i].Version) :
        /\ r.version # "R"
        /\ r.success
        /\ r.checksum # migrations[p][i].Checksum

\* C15: the checksum of the commands [a, b] is
\* hash(hash("" + hash(a)) + hash(b)) and differs from the checksum of
\* [b, a] for distinct a and b; a pass over a definition whose checksum
\* differs from that of the success=true row of its version fails with the
\* checksum-mismatch error and applies nothing (when no definition before
\* it in the sorted list has an error of its own).
C15_ChecksumOrderSensitive ==
    /\ \A a, b \in Commands :
           /\ ChecksumOf(<<a, b>>) = hash(hash("" \o hash(a)) \o hash(b))
           /\ a # b => ChecksumOf(<<a, b>>) # ChecksumOf(<<b, a>>)
    /\ \A p \in Procs :
           \A i \in 1..Len(migrations[p]) :
               (/\ Reconciled(p)
                /\ ChecksumDriftAt(p, i)
                /\ \A j \in 1..(i - 1) : ~DriftAt(p, j) /\ ~OutOfOrderAt(p, j))
               => PassOnly(p) /\ cbErr[p] = "checksum mismatch"

\* The ledger records 1.0.0 with the checksum of [A, B], the definition of
\* 1.0.0 has the commands [B, A]: the pass has failed.
C15_Witness ==
    /\ PassOnly(1)
    /\ cbErr[1] = "checksum mismatch"
    /\ \E r \in table : /\ r.version = "1.0.0"
                         /\ r.success
                         /\ r.checksum = ChecksumOf(<<"A", "B">>)
    /\ \E i \in 1..Len(migrations[1]) :
           /\ migrations[1][i].Version = "1.0.0"
           /\ migrations[1][i].commands = <<"B", "A">>
           /\ migrations[1][i].Checksum = ChecksumOf(<<"B", "A">>)

\* No definition of p before definition i has an error of its own.
NoErrorBefore(p, i) ==
    \A j \in 1..(i - 1) : ~DriftAt(p, j) /\ ~OutOfOrderAt(p, j)

\* C16: for a definition whose version has a success=true row (and that the
\* pass reaches), the checksum is compared first and a difference is the
\* checksum-mismatch error; with equal checksums a different description
\* is the description-mismatch error; with both equal the definition is
\* marked Success and is not selected.  A pass reports a mismatch only
\* against a success=true row.
C16_DriftChecks ==
    \A p \in Procs :
        /\ \A i \in 1..Len(migrations[p]) :
               \A r \in RowsOf(table, migrations[p][i].Version) :
                   (/\ Reconciled(p)
                    /\ r.version # "R"
                    /\ r.success
                    /\ NoErrorBefore(p, i)) =>
                       IF r.checksum # migrations[p][i].Checksum
                       THEN PassOnly(p) /\ cbErr[p] = "checksum mismatch"
                       ELSE IF r.description # migrations[p][i].Description
                       THEN PassOnly(p) /\ cbErr[p] = "description mismatch"
                       ELSE /\ migrations[p][i].State = MigrationSuccess
                            /\ pc[p] = "migrateSingle" => selected[p] # i
        /\ (/\ Reconciled(p)
            /\ cbErr[p] \in {"checksum mismatch", "description mismatch"})
           => \E i \in 1..Len(migrations[p]) : DriftAt(p, i)

\* The definition of 1.0.0 has the checksum of its success=true row and
\* another description: the pass has failed with the description mismatch.
C16_Witness ==
    /\ PassOnly(1)
    /\ cbErr[1] = "description mismatch"
    /\ \E i \in 1..Len(migrations[1]) :
           \E r \in RowsOf(table, migrations[1][i].Version) :
               /\ r.success
               /\ r.checksum = migrations[1][i].Checksum
               /\ r.description # migrations[1][i].Description

DriftErrors ==
    {"checksum mismatch", "description mismatch", "out of order",
     "not resolved locally"}

\* C17: a pass that ends with a checksum, description, out-of-order or
\* orphan error selects no migration; from the start of the pass to the
\* return of Migrate no command is committed and no ledger row is inserted
\* or deleted, and Migrate returns that error.
C17_DriftErrorChangesNothing ==
    /\ [](\A p \in Procs :
            (Reconciled(p) /\ cbErr[p] \in DriftErrors) =>
                /\ PassOnly(p)
                /\ lockTx[p].inserted = {}
                /\ lockTx[p].deleted = {})
    /\ [][\A p \in Procs :
            /\ (pc[p] = "migrateNext" /\ cbErr'[p] \in DriftErrors) =>
                   /\ table' = table
                   /\ schema' = schema
                   /\ obs'[p].applied = obs[p].applied
            /\ (PassOnly(p) /\ cbErr[p] \in DriftErrors) =>
                   /\ table' = table
                   /\ schema' = schema
                   /\ pc'[p] = "done"
                   /\ result'[p] = cbErr[p]]_vars

\* A run has returned the orphan error from a pass in which a definition
\* was pending.
C17_Witness ==
    /\ pc[1] = "done"
    /\ result[1] = "not resolved locally"
    /\ obs[1].passes = 1
    /\ \E i \in 1..Len(migrations[1]) :
           migrations[1][i].State = MigrationPending

\* How many times the run of p has executed the repeatable migration.
RepeatApplies(p) ==
    Cardinality({i \in 1..Len(obs[p].applied) : obs[p].applied[i] = "R"})

RepeatRegistered(p) == \E d \in obs[p].registered : d[1] = "R"

\* C18 as claimed: a run in which a repeatable migration is registered
\* executes it exactly once.
C18_RepeatOncePerRun ==
    \A p \in Procs :
        (pc[p] = "done" /\ RepeatRegistered(p)) => RepeatApplies(p) = 1

\* C18 as amended: a run executes a registered repeatable migration at most
\* once, and exactly once when the run returns nil, whatever rows of "R"
\* the ledger holds; every checksum, description, out-of-order or orphan
\* error of a pass comes from a non-repeatable definition or row.
C18_RepeatOncePerCompletedRun ==
    \A p \in Procs :
        /\ RepeatApplies(p) <= 1
        /\ (pc[p] = "done" /\ result[p] = "nil" /\ RepeatRegistered(p))
               => RepeatApplies(p) = 1
        /\ ~RepeatRegistered(p) => RepeatApplies(p) = 0
        /\ (Reconciled(p) /\ cbErr[p] \in DriftErrors) =>
               \/ OrphanRow(p)
               \/ \E i \in 1..Len(migrations[p]) :
                      DriftAt(p, i) \/ OutOfOrderAt(p, i)

\* A run has executed the repeatable migration although the ledger it
\* started on recorded it as successful with the same checksum.
C18_Witness ==
    /\ pc[1] = "done"
    /\ result[1] = "nil"
    /\ RepeatApplies(1) = 1
    /\ \E r \in obs[1].startTable :
           /\ r.version = "R"
           /\ r.success
           /\ \E q \in table : /\ q.version = "R"
                                /\ q.checksum = r.checksum
                                /\ q.installed_rank > r.installed_rank

\* The last AddMigration call of p was accepted.
Accepted(p) == obs[p].added.err = "nil"

\* The effect of the last AddMigration call of p: one Pending definition is
\* appended when the call is accepted, and the list is unchanged when it is
\* rejected.
AddEffect(p) ==
    LET a == obs[p].added
    IN  IF Accepted(p)
        THEN /\ Len(migrations[p]) = Len(a.before) + 1
             /\ SubSeq(migrations[p], 1, Len(a.before)) = a.before
             /\ migrations[p][Len(migrations[p])].Version = a.version
             /\ migrations[p][Len(migrations[p])].Description = a.description
             /\ migrations[p][Len(migrations[p])].State = MigrationPending
             /\ migrations[p][Len(migrations[p])].Repeat = (a.version = "R")
        ELSE migrations[p] = a.before

\* C19 as claimed: AddMigration accepts the call exactly when the version
\* is "R" or a valid semantic version, the description is not empty and no
\* definition with the same non-repeatable version is registered (so that a
\* further "R" is accepted); it appends one Pending definition when it
\* accepts and leaves the list unchanged when it rejects.
C19_AddMigrationAccepts ==
    \A p \in Procs :
        LET a == obs[p].added
        IN  a.called =>
                /\ Accepted(p) <=>
                       /\ a.version = "R" \/ IsValid(a.version)
                       /\ a.description # ""
                       /\ ~(/\ a.version # "R"
                            /\ \E i \in 1..Len(a.before) :
                                   a.before[i].Version = a.version)
                /\ AddEffect(p)

\* What holds of AddMigration: the same with a further "R" rejected as a
\* duplicate.
C19_AcceptsOneRepeatable ==
    \A p \in Procs :
        LET a == obs[p].added
        IN  a.called =>
                /\ Accepted(p) <=>
                       /\ a.version = "R" \/ IsValid(a.version)
                       /\ a.description # ""
                       /\ ~\E i \in 1..Len(a.before) :
                              a.before[i].Version = a.version
                /\ AddEffect(p)

\* C20 as claimed: no two registered non-repeatable definitions have
\* versions that compare equal as semantic versions.
C20_VersionsSemanticallyUnique ==
    \A p \in Procs :
        \A i, j \in 1..Len(migrations[p]) :
            (/\ i # j
             /\ migrations[p][i].Version # "R"
             /\ migrations[p][j].Version # "R")
            => Compare(migrations[p][i].Version, migrations[p][j].Version) # 0

\* What a run makes of two spellings of one version: it ends with the
\* out-of-order error after it applied the first of them.
C20_TwoSpellingsRun ==
    \A p \in Procs :
        (/\ pc[p] = "done"
         /\ \E d \in obs[p].registered : d[1] = "1.0"
         /\ \E d \in obs[p].registered : d[1] = "1.0.0")
        => result[p] = "out of order" /\ Len(obs[p].applied) = 1


(***************************************************************************)
(* C21: Database.Transaction commits exactly when its callback returns nil *)
(* without panicking; when the callback returns an error or panics the     *)
(* transaction is rolled back and an error is returned; in both cases the  *)
(* call returns with no transaction left open.  Stated of the Transaction  *)
(* call of migrateSingle: it returns an error exactly when the callback    *)
(* failed, the handle holds no transaction afterwards, and the effects of  *)
(* the callback are all committed on success and none on failure.          *)
(***************************************************************************)
C21_TransactionCommitsIffNil ==
    \A p \in Procs :
        obs[p].tx.called =>
            /\ obs[p].tx.err = obs[p].tx.cbErr
            /\ ~obs[p].tx.open
            /\ obs[p].tx.committed =
                   IF obs[p].tx.cbErr THEN 0 ELSE obs[p].tx.effects
(***************************************************************************)
(* C22: every call of lock that obtained its connection ends, on every     *)
(* path, with the lock transaction finished, the connection released       *)
(* exactly once and h.dbLock reset; the transaction is committed when the  *)
(* callback returned (even with an error) and rolled back otherwise; the   *)
(* error of the callback is what lock returns.                             *)
(***************************************************************************)
InSection(p) ==
    pc[p] \in {"lockWait", "migrateNext", "migrateSingle", "delete",
               "deleteWait", "rank", "insert", "commit"}

Committed(p) ==
    IF lockTx[p].failed THEN table
    ELSE {r \in table : r.installed_rank \notin lockTx[p].deleted}
         \cup lockTx[p].inserted

C22_LockAlwaysReleased ==
    /\ [](\A p \in Procs :
            IF InSection(p)
            THEN /\ dbLock[p]
                 /\ lockTx[p].open
                 /\ obs[p].conns = obs[p].released + 1
            ELSE /\ ~dbLock[p]
                 /\ lockTx[p] = NoTx
                 /\ obs[p].conns = obs[p].released)
    /\ [][\A p \in Procs :
            (InSection(p) /\ ~InSection(p)') =>
                /\ (pc[p] = "commit" /\ cbErr[p] # "nil")
                       => result'[p] = cbErr[p]
                /\ (pc[p] = "commit" /\ ~obs'[p].commitFailed)
                       => table' = Committed(p)
                /\ pc[p] # "commit" =>
                       /\ table' = table
                       /\ result'[p] # "nil"]_vars

C22_Witness ==
    \E p \in Procs :
        /\ pc[p] = "done"
        /\ result[p] = "panic"
        /\ obs[p].sections = 2
        /\ obs[p].released = 2
(***************************************************************************)
(* C23: at the end of every lock section, for every non-repeatable         *)
(* version, its commands are committed to the schema if and only if the    *)
(* ledger holds a committed success=true row of it, whatever the outcome   *)
(* of the ledger write and of the commit of the lock transaction.          *)
(***************************************************************************)
C23_SchemaIffSuccessRow ==
    (\A p \in Procs : ~InSection(p)) =>
        \A v \in Versions \ {"R"} :
            (schema[v] > 0) <=>
                (\E r \in table : r.version = v /\ r.success)
(***************************************************************************)
(* C24: in every committed state of the ledger each non-repeatable version *)
(* has at most one row; a record of version V is written inside the lock   *)
(* transaction as the deletion of every row of V followed by the insertion *)
(* of exactly one.                                                         *)
(***************************************************************************)
C24_OneRowPerVersion ==
    /\ \A v \in Versions \ {"R"} : Cardinality(RowsOf(table, v)) <= 1
    /\ \A p \in Procs :
           \A r \in lockTx[p].inserted :
               /\ dbLock[p]
               /\ lockTx[p].open
               /\ RowsOf(lockTx[p].inserted, r.version) = {r}
               /\ Ranks(RowsOf(table, r.version)) \subseteq lockTx[p].deleted

C24_Witness ==
    /\ \A p \in Procs : ~InSection(p)
    /\ \E r \in table :
           /\ r.version = "1.0.0"
           /\ r.success
           /\ r.installed_rank = 2
    /\ RowsOf(table, "1.0.0") = table
    /\ Cardinality(table) = 1
(***************************************************************************)
(* C25: after any sequence of loads and appends within a run,              *)
(* getAppliedMigrations returns exactly the rows currently committed in    *)
(* the history table, in strictly ascending installed_rank order without   *)
(* duplicates, having queried only the ranks above the highest cached      *)
(* rank; the cache only grows.                                             *)
(***************************************************************************)
\* The step of p is a call of getAppliedMigrations.
Loads(p) ==
    /\ pc[p] \in {"migrateNext", "rank"}
    /\ pc'[p] \notin {pc[p], "done"}

Entries(c) == {c[i] : i \in 1..Len(c)}

StrictlyAscending(c) ==
    \A i, j \in 1..Len(c) : i < j => c[i].InstalledRank < c[j].InstalledRank

\* The cache only grows, and by entries of ranks above those it holds.
OnlyGrows(old, new) ==
    /\ Entries(old) \subseteq Entries(new)
    /\ \A e \in Entries(new) \ Entries(old) :
           \A o \in Entries(old) : o.InstalledRank < e.InstalledRank

C25_ReturnsCommittedRows ==
    [][\A p \in Procs :
          Loads(p) =>
              /\ Entries(cache'[p]) = {Scan(r) : r \in table}
              /\ StrictlyAscending(cache'[p])
              /\ OnlyGrows(cache[p], cache'[p])]_vars

\* C25 as the code has it: the list returned holds every committed row and,
\* besides, the rows cached earlier in the run, deleted since or not.
C25_ReturnsCommittedAndCachedRows ==
    [][\A p \in Procs :
          Loads(p) =>
              /\ Entries(cache'[p]) =
                     Entries(cache[p]) \cup {Scan(r) : r \in table}
              /\ StrictlyAscending(cache'[p])
              /\ OnlyGrows(cache[p], cache'[p])]_vars

\* A list returned with a row that a retry of this run has deleted.
C25_Witness ==
    \E p \in Procs :
        /\ pc[p] = "migrateSingle"
        /\ \E e \in Entries(cache[p]) :
               /\ e.State = MigrationFailed
               /\ e.InstalledRank \notin Ranks(table)
        /\ \E r \in table : Scan(r) \in Entries(cache[p])
(***************************************************************************)
(* C26: when the cache holds a stale success=false row of a version, which *)
(* a retry of this run has deleted from the table, and a newer             *)
(* success=true row of the same version, reconciliation uses the row of    *)
(* the highest installed_rank: the version is treated as applied, is       *)
(* checked for drift, is not applied again and counts toward               *)
(* lastAppliedVersion.                                                     *)
(***************************************************************************)
\* The entries of c of a version: a failed one that is no longer in the
\* table, and the success one of a higher rank.
StaleFailed(c, version) ==
    {e \in Entries(c) : /\ e.Version = version
                        /\ e.State = MigrationFailed
                        /\ e.InstalledRank \notin Ranks(table)}

NewerSuccess(c, version) ==
    {e \in Entries(c) :
        /\ e.Version = version
        /\ e.State = MigrationSuccess
        /\ \E f \in StaleFailed(c, version) :
               f.InstalledRank < e.InstalledRank}

C26_HighestRankRowWins ==
    [][\A p \in Procs :
          (pc[p] = "migrateNext" /\ pc'[p] # pc[p] /\ cbErr'[p] = "nil") =>
              \A i \in 1..Len(migrations'[p]) :
                  LET m == migrations'[p][i]
                  IN  \A e \in NewerSuccess(cache'[p], m.Version) :
                          /\ m.State = MigrationSuccess
                          /\ m.Checksum = e.Checksum
                          /\ m.Description = e.Description
                          /\ selected'[p] # i
                          /\ Compare(lastAppliedVersion'[p], m.Version) >= 0]_vars

C26_Witness ==
    \E p \in Procs :
        /\ pc[p] = "migrateSingle"
        /\ cbErr[p] = "nil"
        /\ \E i \in 1..Len(migrations[p]) :
               /\ NewerSuccess(cache[p], migrations[p][i].Version) # {}
               /\ migrations[p][i].State = MigrationSuccess
               /\ selected[p] > i
(***************************************************************************)
(* C27: Migrate called again on the same Database after a run that         *)
(* returned an error uses, for every definition, the command list and the  *)
(* checksum of the first run: the preparation hooks invoked again neither  *)
(* accumulate commands nor change checksums.                               *)
(***************************************************************************)
C27_RerunSameCommandsAndChecksum ==
    \A p \in Procs :
        \A i \in 1..Len(migrations[p]) :
            LET m == migrations[p][i]
                first == Prepare(NewMigration(m.Version, m.Description,
                                              m.script))
            IN  /\ m.commands = first.commands
                /\ m.Checksum = first.Checksum
(***************************************************************************)
(* C28: addAppliedMigration called while h.dbLock is nil returns the       *)
(* not-locked error, deletes and inserts no ledger row and leaves the      *)
(* InstalledRank of the definition as it is; within a run of Migrate every *)
(* ledger write happens while the lock is held.                            *)
(***************************************************************************)
C28_NoWriteWithoutLock ==
    [][\A p \in Procs :
          /\ (~obs[p].record.called /\ obs'[p].record.called) =>
                 /\ ~dbLock[p]
                 /\ obs'[p].record.err = "not locked"
                 /\ table' = table
                 /\ lockTx' = lockTx
                 /\ migrations' = migrations
          /\ (\/ lockTx'[p].deleted # lockTx[p].deleted
              \/ lockTx'[p].inserted # lockTx[p].inserted
              \/ table' # table) =>
                 \E q \in Procs : dbLock[q] /\ lockTx[q].open]_vars

C28_Witness ==
    \E p \in Procs :
        /\ obs[p].record.called
        /\ obs[p].record.err = "not locked"
        /\ pc[p] = "lock"
        /\ table # {}

(***************************************************************************)
(* C29: lock called while the same migrationHistory holds the lock returns *)
(* the already-locked error without running the callback and without       *)
(* acquiring a connection; h.dbLock and the open lock transaction stay as  *)
(* they are.                                                               *)
(***************************************************************************)
C29_NoNestedLock ==
    [][\A p \in Procs :
          (~obs[p].relock.called /\ obs'[p].relock.called) =>
              /\ obs'[p].relock.err = "already locked"
              /\ obs'[p].conns = obs[p].conns
              /\ obs'[p].sections = obs[p].sections
              /\ obs'[p].passes = obs[p].passes
              /\ dbLock[p] /\ dbLock'[p]
              /\ lockTx[p].open
              /\ lockTx' = lockTx
              /\ pc' = pc
              /\ table' = table]_vars

C29_Witness ==
    \E p \in Procs :
        /\ obs[p].relock.called
        /\ obs[p].relock.err = "already locked"
        /\ dbLock[p]
        /\ lockTx[p].inserted # {}
(***************************************************************************)
(* C30: createSchema and the creation of the table in createTable make at  *)
(* most 10 attempts each; every attempt looks for the object again first   *)
(* and succeeds without a CREATE when it exists; when all attempts have    *)
(* failed the last error is returned and Migrate stops before it takes the *)
(* lock, reconciles or applies anything.                                   *)
(***************************************************************************)
CreateErrors == {"unable to create schema", "unable to create table"}

InRetry(p) ==
    pc[p] \in {"createSchema", "createSchemaTx", "createTable", "createTableTx"}

C30_BoundedCreation ==
    /\ [](\A p \in Procs :
            /\ boot.retry[p].attempt <= MaxAttempts
            /\ InRetry(p) <=> boot.retry[p].attempt >= 1
            /\ result[p] \in CreateErrors =>
                   /\ pc[p] = "done"
                   /\ ~dbLock[p]
                   /\ obs[p].conns = 0
                   /\ obs[p].passes = 0
                   /\ obs[p].applied = <<>>)
    /\ [][\A p \in Procs :
            /\ (pc[p] # "createSchemaTx" /\ pc'[p] = "createSchemaTx") =>
                   /\ pc[p] = "createSchema"
                   /\ ~boot.schema
            /\ (pc[p] # "createTableTx" /\ pc'[p] = "createTableTx") =>
                   /\ pc[p] = "createTable"
                   /\ ~boot.table
            /\ (InRetry(p) /\ InRetry(p)' /\ pc'[p] # pc[p]) =>
                   boot'.retry[p].attempt \in
                       {boot.retry[p].attempt, boot.retry[p].attempt + 1}
            /\ (result[p] \notin CreateErrors /\ result'[p] \in CreateErrors)
                   => boot.retry[p].attempt = MaxAttempts]_vars

C30_Witness ==
    \E p \in Procs :
        /\ pc[p] = "done"
        /\ result[p] = "unable to create table"
        /\ boot.schema
        /\ ~boot.table
(***************************************************************************)
(* C31: when several processes bootstrap concurrently against a database   *)
(* that lacks the schema or the history table, and when a process          *)
(* bootstraps again, every call of createTable returns success and the     *)
(* database ends with the one schema and the one table (with its index): a *)
(* process whose CREATE fails because another process created the object   *)
(* first finds it at its next check of existence and returns success.      *)
(***************************************************************************)
BootErrors == CreateErrors \cup {"unable to check"}

\* p is in Migrate after createTable returned nil.
Bootstrapped(p) ==
    pc[p] \in {"lock", "lockWait", "migrateNext", "migrateSingle", "delete",
               "deleteWait", "rank", "insert", "commit"}

C31_BootstrapSucceeds ==
    /\ [](\A p \in Procs :
            /\ result[p] \notin BootErrors
            /\ boot.retry[p].attempt <= 2
            /\ Bootstrapped(p) => (boot.schema /\ boot.table)
            /\ pc[p] \in {"tableExists", "createTable", "createTableTx"}
                   => boot.schema)
    /\ [][/\ boot.schema => boot'.schema
          /\ boot.table => boot'.table
          /\ \A p \in Procs :
                 /\ (pc[p] = "createSchema" /\ boot.schema /\ pc'[p] # pc[p])
                        => pc'[p] = "tableExists"
                 /\ (pc[p] = "createTable" /\ boot.table /\ pc'[p] # pc[p])
                        => pc'[p] = "lock"]_vars

\* The CREATE TABLE of a process has failed on the table of another, and
\* the process is at the check of its second attempt.
C31_Witness ==
    \E p \in Procs :
        /\ pc[p] = "createTable"
        /\ boot.retry[p].attempt = 2
        /\ boot.table
        /\ \E q \in Procs \ {p} : Bootstrapped(q)
(***************************************************************************)
(* C32: when several processes run Migrate concurrently against the same   *)
(* history table with migrations whose commands succeed, then under fair   *)
(* scheduling every process that waits for the lock is granted it and      *)
(* every run terminates.                                                   *)
(***************************************************************************)
C32_EveryRunTerminates ==
    /\ \A p \in Procs : pc[p] = "lockWait" ~> pc[p] = "migrateNext"
    /\ \A p \in Procs : pc[p] = "deleteWait" ~> pc[p] = "rank"
    /\ <>[](\A p \in Procs : pc[p] = "done")

\* A process waits for the lock that the other holds.
C32_Witness ==
    \E p \in Procs :
        /\ pc[p] = "lockWait"
        /\ \E q \in Procs \ {p} : InCallback(q)
HandleAt(p, i) ==
    runCommands(Begin(NewConn),
                SubSeq(migrations[p][selected[p]].commands, 1, i - 1),
                1, 0).db

C34_NestedKeepsEnclosing ==
    \A p \in Procs :
        /\ pc[p] = "migrateSingle" =>
               LET commands == migrations[p][selected[p]].commands
               IN  \A i \in 1..Len(commands) :
                       (IsNested(commands[i]) /\ HandleAt(p, i).tx) =>
                           LET h == HandleAt(p, i)
                               r == run(h, commands[i], FALSE)
                           IN  /\ ~r.err
                               /\ r.db.tx
                               /\ r.db.committed = h.committed
                               /\ r.db.pending = h.pending + 1
        /\ (/\ pc[p] = "delete"
            /\ obs[p].tx.called
            /\ obs[p].tx.cbErr) => schema = obs[p].schemaBefore
====
